---- MODULE Spec2Model ----
(***************************************************************************)
(* Rudolf game: the boost trigger (ShakeDetection), the objective tracker  *)
(* (ChimneySystem) and the session controller (Game), as state machines.   *)
(*                                                                         *)
(* Every object of the program is one record-valued variable whose fields  *)
(* carry the names of the source.  Host timers (setTimeout) are the set    *)
(* `timeouts`; a timer handle is the instant the timer is due (0 = null).  *)
(* Timers are punctual: the clock never passes a due timer, but a timer    *)
(* and another event due at the same instant may run in either order.      *)
(* `op` names the handler that ran last, `arg` holds its arguments, `out`    *)
(* lists the callbacks and notifications it emitted, in order, and `ret`   *)
(* is the value it returned.                                               *)
(***************************************************************************)
EXTENDS Integers, Sequences, FiniteSets, TLC

VARIABLES now, ShakeDetection, timeouts, chimneySystem, fogSystem,
          Game, UI, TiltControls, TouchControls, Levels, DeviceCompat, rafs,
          pointers, op, arg, out, ret, hist

\* The session controller's objects; `rafs` holds the handles of the pending
\* requestAnimationFrame callbacks and `pointers` the fingers that are on the
\* canvas and whether the mouse button is held.
gameVars == <<Game, UI, TiltControls, TouchControls, Levels, DeviceCompat, rafs, pointers>>

vars == <<now, ShakeDetection, timeouts, chimneySystem, fogSystem, gameVars,
          op, arg, out, ret, hist>>

\* ------------------------------------------------------------------ bounds
\* Date.now() when the page is constructed (epoch milliseconds: far above
\* every duration of the program).
StartTime == 10000
\* The specifications follow the clock for this many milliseconds: ShortTime
\* covers a cooldown, MaxTime a run of maxRapidShakes triggers and the
\* overheat that follows it.
ShortTime == 2500
MaxTime == 14000
\* An instant inside the cooldown, in milliseconds after the last trigger.
Early == 500
\* How far the clock moves when nothing is pending.
Idle == 6000
\* Calls of ShakeDetection.reset() and motion samples with a reading that one
\* behaviour of the long-horizon specification contains.
MaxResets == 1
MaxSamples == 1
\* The canvas (CSS pixels).
CanvasWidth == 800
CanvasHeight == 480
\* The largest count spawnChimneys is called with when it is called directly.
MaxCount == 2
\* The history counts this many Haptics.chimneyFound notifications.
MaxFound == 2

\* Session controller: the levels started in one behaviour, how many of them
\* are played (frames and taps followed), and the frames followed without
\* update() (paused or stopped).
MaxStarts == 2
MaxPlayed == 1
MaxIdleFrames == 1
\* Single frames are followed for the first MaxPlay and the last LateTimer
\* milliseconds of a level; in between the frames run in one go.
MaxPlay == 0
LateTimer == 100
\* Milliseconds between two animation frames (the second exceeds the cap).
FrameGaps == {50, 250}

\* ------------------------------------------------------------------ helpers
Abs(n) == IF n < 0 THEN -n ELSE n

Min(a, b) == IF a < b THEN a ELSE b

RECURSIVE SeqSum(_)
SeqSum(s) == IF s = <<>> THEN 0 ELSE Head(s) + SeqSum(Tail(s))

Has(s, e) == \E i \in 1..Len(s) : s[i] = e

Count(s, e) == Cardinality({i \in 1..Len(s) : s[i] = e})

\* ------------------------------------------------- FogSystem
\* Rudolf's visibility radii (normal and boosted).
noseRadius == 100
noseBoostRadius == 300

FogInit == [visibilityHoles |-> <<>>]

\* How long a boost burst stays (ms).
boostBurstDuration == 3000

\* Mutant: the hole is always added, the nose's hole is not replaced.
addVisibilityHole_push(fog, x, y, radius, temporary, duration, time) ==
    [fog EXCEPT !.visibilityHoles =
        Append(@, [x |-> x, y |-> y, radius |-> radius, temporary |-> temporary,
                   expiry |-> IF temporary THEN time + duration ELSE 0])]

\* A permanent hole never expires (expiry Infinity, written 0: it is not
\* read); `time` is Date.now() when the call is made.
addVisibilityHole(fog, x, y, radius, temporary, duration, time) ==
    LET hole == [x |-> x, y |-> y, radius |-> radius, temporary |-> temporary,
                 expiry |-> IF temporary THEN time + duration ELSE 0]
        holes == fog.visibilityHoles
        permanent == {i \in 1..Len(holes) : ~holes[i].temporary}
    IN IF ~temporary /\ permanent # {}
       THEN LET existingIndex == CHOOSE i \in permanent : \A j \in permanent : i <= j
            IN [fog EXCEPT !.visibilityHoles[existingIndex] = hole]
       ELSE [fog EXCEPT !.visibilityHoles = Append(holes, hole)]

setNoseVisibilityBody(fog, x, y, radius) == addVisibilityHole(fog, x, y, radius, FALSE, 0, 0)

addBoostBurstBody(fog, x, y, radius, time) ==
    addVisibilityHole(fog, x, y, radius, TRUE, boostBurstDuration, time)

revealAllBody(fog, duration, time) ==
    addVisibilityHole(fog, CanvasWidth \div 2, CanvasHeight \div 2,
                      IF CanvasWidth > CanvasHeight THEN CanvasWidth ELSE CanvasHeight,
                      TRUE, duration, time)

\* update(): the temporary holes whose expiry has come are dropped (the fog
\* particles only matter to the rendering).
FogSystem_updateBody(fog, time) ==
    [fog EXCEPT !.visibilityHoles =
        SelectSeq(fog.visibilityHoles, LAMBDA hole : ~hole.temporary \/ hole.expiry > time)]

\* distance < hole.radius * 0.8, with both sides squared and scaled by 25.
isPointVisible(fog, x, y) ==
    \E i \in 1..Len(fog.visibilityHoles) :
        LET hole == fog.visibilityHoles[i]
            dx == x - hole.x
            dy == y - hole.y
        IN 25 * (dx * dx + dy * dy) < 16 * hole.radius * hole.radius

\* ------------------------------------------------- ChimneySystem
chimneyWidth == 40
chimneyHeight == 50
minSpawnDistance == 150
spawnMargin == 80
attemptsPerChimney == 20
hitPadding == 20
perfectDistance == 20
perfectPoints == 150
normalPoints == 100

ChimneyInit ==
    [ width |-> CanvasWidth,
      height |-> CanvasHeight,
      chimneys |-> <<>>,
      deliveredCount |-> 0,
      missedCount |-> 0,
      totalRequired |-> 5 ]

\* What checkTap returns when no chimney is hit (null).
NullResult == [points |-> 0, isPerfect |-> FALSE]

\* The values Math.random() takes during one spawnChimneys call, as the pixel
\* offsets <<random * (width - 2 * margin), random * (height - 2 * margin)>>
\* they produce, drawn in this order and cyclically.  The positions of
\* SpreadDraws are mutually far enough; in the other streams a draw falls
\* closer than minSpawnDistance to a placed chimney whenever more are asked for.
SpreadDraws ==
    << <<0, 0>>, <<160, 0>>, <<320, 0>>, <<0, 160>>, <<160, 160>>,
       <<320, 160>>, <<480, 0>>, <<480, 160>> >>

CrowdedDraws == << <<0, 0>>, <<160, 0>>, <<320, 0>>, <<0, 80>> >>

CloseDraws == << <<0, 0>>, <<0, 80>> >>

\* The largest offsets Math.random() can give on the 800 x 480 canvas (below
\* 640 and 320), then the other corners.
CornerDraws == << <<639, 319>>, <<0, 0>>, <<639, 0>>, <<0, 319>> >>

RandomStreams == {SpreadDraws, CrowdedDraws, CloseDraws, CornerDraws}

\* Mutant: half the minimum distance is enough.
isValidPosition_half(cs, x, y) ==
    \A i \in 1..Len(cs.chimneys) :
        LET dx == x - cs.chimneys[i].x
            dy == y - cs.chimneys[i].y
        IN ~(4 * (dx * dx + dy * dy) < minSpawnDistance * minSpawnDistance)

isValidPosition(cs, x, y) ==
    \A i \in 1..Len(cs.chimneys) :
        LET dx == x - cs.chimneys[i].x
            dy == y - cs.chimneys[i].y
        IN ~(dx * dx + dy * dy < minSpawnDistance * minSpawnDistance)

NewChimney(x, y) ==
    [ x |-> x, y |-> y, width |-> chimneyWidth, height |-> chimneyHeight,
      delivered |-> FALSE, visible |-> FALSE, spotted |-> FALSE, missed |-> FALSE ]

\* Attempt i of the loop of spawnChimneys; `placed` is the number of chimneys
\* pushed so far.
SpawnAttempt(cs, count, i, stream) ==
    LET placed == Len(cs.chimneys)
        draw == stream[(i % Len(stream)) + 1]
        x == spawnMargin + draw[1]
        y == spawnMargin + draw[2]
    IN IF placed < count /\ isValidPosition(cs, x, y)
       THEN [cs EXCEPT !.chimneys = Append(cs.chimneys, NewChimney(x, y))]
       ELSE cs

\* The attempts i .. j-1 of the loop of spawnChimneys, in order (the range is
\* halved to keep the evaluation shallow).
RECURSIVE SpawnLoop(_, _, _, _, _)
SpawnLoop(cs, count, i, j, stream) ==
    IF j <= i THEN cs
    ELSE IF j = i + 1 THEN SpawnAttempt(cs, count, i, stream)
    ELSE LET mid == (i + j) \div 2
             first == SpawnLoop(cs, count, i, mid, stream)
         IN IF Len(first.chimneys) >= count THEN first
            ELSE SpawnLoop(first, count, mid, j, stream)

\* The number of iterations the loop of spawnChimneys runs: the least i of
\* lo..attempts with i = attempts or placed = count after i iterations.
RECURSIVE spawnIterations(_, _, _, _, _)
spawnIterations(cs, count, lo, attempts, stream) ==
    IF lo >= attempts THEN attempts
    ELSE LET mid == (lo + attempts) \div 2
         IN IF Len(SpawnLoop(cs, count, 0, mid, stream).chimneys) >= count
            THEN spawnIterations(cs, count, lo, mid, stream)
            ELSE spawnIterations(cs, count, mid + 1, attempts, stream)

\* Operators on a machine c = [cs, out, ret]: the ChimneySystem object, the
\* callbacks and notifications emitted so far, and the value returned.
spawnChimneysBody(c, count, stream) ==
    LET cs0 == [c.cs EXCEPT !.chimneys = <<>>,
                            !.deliveredCount = 0,
                            !.missedCount = 0,
                            !.totalRequired = count]
        attempts == count * attemptsPerChimney
        cs1 == SpawnLoop(cs0, count, 0, attempts, stream)
    IN [c EXCEPT !.cs = cs1,
                 !.ret = [points |-> Len(cs1.chimneys), isPerfect |-> FALSE]]

\* The isValidPosition calls of spawnChimneys(count), one for each iteration
\* of its loop.
spawnLog(cs, count, stream) ==
    LET cs0 == [cs EXCEPT !.chimneys = <<>>]
        attempts == count * attemptsPerChimney
        iterations == IF Len(SpawnLoop(cs0, count, 0, attempts, stream).chimneys) < count
                      THEN attempts
                      ELSE spawnIterations(cs0, count, 0, attempts, stream)
    IN [k \in 1..iterations |-> "isValidPosition"]

\* Mutant: the notification is sent only the first time a chimney is seen.
ChimneySystem_updateBody_notifyOnce(c, fog) ==
    LET old == c.cs.chimneys
        Seen(i) == isPointVisible(fog, old[i].x, old[i].y)
        Active(i) == ~old[i].delivered /\ ~old[i].missed
        new == [i \in 1..Len(old) |->
                  IF Active(i)
                  THEN [old[i] EXCEPT !.visible = Seen(i),
                                      !.spotted = old[i].spotted \/ Seen(i)]
                  ELSE old[i]]
        found == SelectSeq([i \in 1..Len(old) |-> i],
                           LAMBDA i : Active(i) /\ Seen(i) /\ ~old[i].spotted)
    IN [c EXCEPT !.cs.chimneys = new,
                 !.out = c.out \o [k \in 1..Len(found) |-> "Haptics.chimneyFound"]]

ChimneySystem_updateBody(c, fog) ==
    LET old == c.cs.chimneys
        Seen(i) == isPointVisible(fog, old[i].x, old[i].y)
        Active(i) == ~old[i].delivered /\ ~old[i].missed
        new == [i \in 1..Len(old) |->
                  IF Active(i)
                  THEN [old[i] EXCEPT !.visible = Seen(i),
                                      !.spotted = old[i].spotted \/ Seen(i)]
                  ELSE old[i]]
        found == SelectSeq([i \in 1..Len(old) |-> i],
                           LAMBDA i : Active(i) /\ Seen(i) /\ ~old[i].visible)
    IN [c EXCEPT !.cs.chimneys = new,
                 !.out = c.out \o [k \in 1..Len(found) |-> "Haptics.chimneyFound"]]

getChimneyBounds(chimney) ==
    [ x |-> chimney.x - chimney.width \div 2,
      y |-> chimney.y - chimney.height \div 2,
      width |-> chimney.width,
      height |-> chimney.height ]

deliverPresent(c, i, tapX, tapY) ==
    LET chimney == c.cs.chimneys[i]
        dx == tapX - chimney.x
        dy == tapY - chimney.y
        isPerfect == dx * dx + dy * dy < perfectDistance * perfectDistance
        cs1 == [c.cs EXCEPT !.chimneys[i].delivered = TRUE,
                            !.deliveredCount = c.cs.deliveredCount + 1]
        all == cs1.deliveredCount >= cs1.totalRequired
    IN [c EXCEPT !.cs = cs1,
                 !.out = c.out \o <<"Haptics.success", "onDelivery">>
                         \o (IF all THEN <<"onAllDelivered">> ELSE <<>>),
                 !.ret = [points |-> IF isPerfect THEN perfectPoints ELSE normalPoints,
                          isPerfect |-> isPerfect]]

\* Whether the loop of checkTap stops at chimney i for the tap (x, y).
TapHits(cs, i, x, y, needVisible) ==
    LET chimney == cs.chimneys[i]
        bounds == getChimneyBounds(chimney)
    IN /\ ~(chimney.delivered \/ chimney.missed \/ (needVisible /\ ~chimney.visible))
       /\ x >= bounds.x - hitPadding
       /\ x <= bounds.x + bounds.width + hitPadding
       /\ y >= bounds.y - hitPadding
       /\ y <= bounds.y + bounds.height + hitPadding

\* Mutant: a chimney still hidden by the fog can be hit.
checkTapBody_hiddenToo(c, x, y) ==
    LET hits == {i \in 1..Len(c.cs.chimneys) : TapHits(c.cs, i, x, y, FALSE)}
    IN IF hits = {} THEN [c EXCEPT !.ret = NullResult]
       ELSE deliverPresent(c, CHOOSE i \in hits : \A j \in hits : i <= j, x, y)

checkTapBody(c, x, y) ==
    LET hits == {i \in 1..Len(c.cs.chimneys) : TapHits(c.cs, i, x, y, TRUE)}
    IN IF hits = {} THEN [c EXCEPT !.ret = NullResult]
       ELSE deliverPresent(c, CHOOSE i \in hits : \A j \in hits : i <= j, x, y)

markMissedBody(c, i) ==
    LET chimney == c.cs.chimneys[i]
    IN IF chimney.delivered \/ chimney.missed THEN c
       ELSE [c EXCEPT !.cs.chimneys[i].missed = TRUE,
                      !.cs.missedCount = c.cs.missedCount + 1,
                      !.out = c.out \o <<"Haptics.miss", "onMiss">>]

Terminal(chimney) == chimney.delivered \/ chimney.missed

getRemainingCount(cs) == cs.totalRequired - cs.deliveredCount

ChimneySystem_resetBody(c) ==
    [c EXCEPT !.cs.chimneys = <<>>,
              !.cs.deliveredCount = 0,
              !.cs.missedCount = 0]

\* ------------------------------------------------- ShakeDetection: constants
sensitivity == 15
cooldown == 2000
maxCharges == 3
overheatDuration == 5000
shakeCountWindow == 3000
maxRapidShakes == 5
bufferSize == 5

\* devicemotion events delivered to handleMotion: a sample without reading
\* (acceleration.x === null) or an accelerationIncludingGravity reading.
MotionEvents ==
    { [isNull |-> TRUE, x |-> 0, y |-> 0, z |-> 0] } \cup
    { [isNull |-> FALSE, x |-> ax, y |-> 0, z |-> 0] : ax \in {0, 20} }

ShakeInit ==
    [ enabled |-> FALSE,
      hasPermission |-> FALSE,
      isInitialized |-> FALSE,
      useFallback |-> FALSE,
      charges |-> maxCharges,
      lastShake |-> 0,
      isOverheated |-> FALSE,
      overheatTimer |-> 0,
      shakeCount |-> 0,
      shakeCountTimer |-> 0,
      lastAcceleration |-> [x |-> 0, y |-> 0, z |-> 0],
      accelerationBuffer |-> <<>> ]

\* Operators on a "machine" m = [sd, to, out]: the ShakeDetection object, the
\* pending timeouts and the notifications emitted so far by the running handler.
clearTimeout(to, fn, handle) == to \ { [fn |-> fn, at |-> handle] }

setTimeout(to, fn, delay) == to \cup { [fn |-> fn, at |-> now + delay] }

resetShakeCountTimer(m) ==
    LET cleared == IF m.sd.shakeCountTimer # 0
                   THEN clearTimeout(m.to, "shakeCount", m.sd.shakeCountTimer)
                   ELSE m.to
    IN [m EXCEPT !.to = setTimeout(cleared, "shakeCount", shakeCountWindow),
                 !.sd.shakeCountTimer = now + shakeCountWindow]

overheat(m) ==
    [m EXCEPT !.sd.isOverheated = TRUE,
              !.sd.shakeCount = 0,
              !.out = Append(m.out, "onOverheat"),
              !.to = setTimeout(m.to, "overheat", overheatDuration),
              !.sd.overheatTimer = now + overheatDuration]

\* Mutant: the overheat threshold is compared with > instead of >=.
triggerShake_lateOverheat(m) ==
    LET m1 == [m EXCEPT !.sd.lastShake = now,
                        !.sd.charges = m.sd.charges - 1,
                        !.sd.shakeCount = m.sd.shakeCount + 1]
        m2 == resetShakeCountTimer(m1)
        m3 == IF m2.sd.shakeCount > maxRapidShakes THEN overheat(m2) ELSE m2
    IN [m3 EXCEPT !.out = m3.out \o <<"onShake", "onChargeChange", "Haptics.boost">>]

triggerShake(m) ==
    LET m1 == [m EXCEPT !.sd.lastShake = now,
                        !.sd.charges = m.sd.charges - 1,
                        !.sd.shakeCount = m.sd.shakeCount + 1]
        m2 == resetShakeCountTimer(m1)
        m3 == IF m2.sd.shakeCount >= maxRapidShakes THEN overheat(m2) ELSE m2
    IN [m3 EXCEPT !.out = m3.out \o <<"onShake", "onChargeChange", "Haptics.boost">>]

\* Mutant: the charges check is dropped.
manualTriggerBody_noChargeCheck(m) ==
    IF ~m.sd.enabled \/ m.sd.isOverheated THEN m
    ELSE LET timeSinceLastShake == now - m.sd.lastShake
         IN IF timeSinceLastShake > cooldown THEN triggerShake(m) ELSE m

\* Mutant: the cooldown is compared with >= instead of >.
manualTriggerBody_cooldownInclusive(m) ==
    IF ~m.sd.enabled \/ m.sd.isOverheated THEN m
    ELSE LET timeSinceLastShake == now - m.sd.lastShake
         IN IF timeSinceLastShake >= cooldown /\ m.sd.charges > 0
            THEN triggerShake(m)
            ELSE m

\* Mutant: the overheat check is dropped.
manualTriggerBody_ignoreOverheat(m) ==
    IF ~m.sd.enabled THEN m
    ELSE LET timeSinceLastShake == now - m.sd.lastShake
         IN IF timeSinceLastShake > cooldown /\ m.sd.charges > 0
            THEN triggerShake(m)
            ELSE m

manualTriggerBody(m) ==
    IF ~m.sd.enabled \/ m.sd.isOverheated THEN m
    ELSE LET timeSinceLastShake == now - m.sd.lastShake
         IN IF timeSinceLastShake > cooldown /\ m.sd.charges > 0
            THEN triggerShake(m)
            ELSE m

handleMotionBody(m, event) ==
    IF ~m.sd.enabled \/ m.sd.isOverheated THEN m
    ELSE IF event.isNull THEN m
    ELSE LET current == [x |-> event.x, y |-> event.y, z |-> event.z]
             last == m.sd.lastAcceleration
             totalDelta == Abs(current.x - last.x) + Abs(current.y - last.y)
                           + Abs(current.z - last.z)
             pushed == Append(m.sd.accelerationBuffer, totalDelta)
             buffer == IF Len(pushed) > bufferSize THEN Tail(pushed) ELSE pushed
             \* avgDelta > sensitivity, with avgDelta = sum / length
             strong == SeqSum(buffer) > sensitivity * Len(buffer)
             m1 == [m EXCEPT !.sd.accelerationBuffer = buffer,
                             !.sd.lastAcceleration = current]
             timeSinceLastShake == now - m.sd.lastShake
         IN IF strong /\ timeSinceLastShake > cooldown
            THEN IF m1.sd.charges > 0 THEN triggerShake(m1) ELSE m1
            ELSE m1

\* Mutant: a charge is added whatever the count.
addChargeBody_noCap(m) ==
    [m EXCEPT !.sd.charges = m.sd.charges + 1,
              !.out = Append(m.out, "onChargeChange")]

addChargeBody(m) ==
    IF m.sd.charges < maxCharges
    THEN [m EXCEPT !.sd.charges = m.sd.charges + 1,
                   !.out = Append(m.out, "onChargeChange")]
    ELSE m

resetChargesBody(m) ==
    [m EXCEPT !.sd.charges = maxCharges,
              !.out = Append(m.out, "onChargeChange")]

resetBody(m) ==
    LET m1 == [m EXCEPT !.sd.charges = maxCharges,
                        !.sd.isOverheated = FALSE,
                        !.sd.shakeCount = 0,
                        !.sd.lastShake = 0,
                        !.sd.accelerationBuffer = <<>>]
        m2 == IF m1.sd.overheatTimer # 0
              THEN [m1 EXCEPT !.to = clearTimeout(m1.to, "overheat", m1.sd.overheatTimer),
                              !.sd.overheatTimer = 0]
              ELSE m1
        m3 == IF m2.sd.shakeCountTimer # 0
              THEN [m2 EXCEPT !.to = clearTimeout(m2.to, "shakeCount", m2.sd.shakeCountTimer),
                              !.sd.shakeCountTimer = 0]
              ELSE m2
    IN [m3 EXCEPT !.out = Append(m3.out, "onChargeChange")]

\* The callback of the timer set by resetShakeCountTimer.
shakeCountTimeoutBody(m) == [m EXCEPT !.sd.shakeCount = 0]

\* Mutant: the recovery does not announce the end of the cooldown.
overheatTimeoutBody_silent(m) == [m EXCEPT !.sd.isOverheated = FALSE]

\* The callback of the timer set by overheat.
overheatTimeoutBody(m) ==
    [m EXCEPT !.sd.isOverheated = FALSE,
              !.out = Append(m.out, "onCooldownEnd")]

\* ------------------------------------------------- ShakeDetection: handlers
\* The machine a handler starts from.
M0 == [sd |-> ShakeDetection, to |-> timeouts, out |-> <<>>]

\* The pointer gestures seen so far (see HistTouch).
\* History of the fog: the arguments of the last setNoseVisibility call since
\* the last reset.
NoNose == [set |-> FALSE, x |-> 0, y |-> 0, radius |-> 0]

HistFog(name, args) ==
    IF name = "setNoseVisibility"
    THEN [hist EXCEPT !.nose = [set |-> TRUE, x |-> args[1], y |-> args[2], radius |-> args[3]]]
    ELSE IF name = "FogSystem_reset" THEN [hist EXCEPT !.nose = NoNose]
    ELSE hist

TouchHistInit ==
    [ pressed |-> {}, origin |-> [x |-> 0, y |-> 0], pressAt |-> 0, dragged |-> FALSE,
      held |-> FALSE, twoFinger |-> FALSE,
      lastRelease |-> [kind |-> "none", at |-> 0, x |-> 0, y |-> 0],
      lastSignal |-> 0, waits |-> 0 ]

\* History kept for the properties (no handler reads it): the instant
\* isOverheated was last set, the instant of the last accepted trigger since
\* the last reset() (0 = none), and the length of the current run of accepted
\* triggers whose gaps are shorter than (strictRun) or no longer than
\* (looseRun) shakeCountWindow.
\* History of the tilt sensor (see HistTilt).
TiltHistInit ==
    [ raws |-> {}, seen |-> FALSE, fresh |-> FALSE, calibrating |-> FALSE,
      cancelled |-> FALSE, calibrations |-> 0, events |-> 0 ]

HistInit ==
    [overheatAt |-> 0, lastAccept |-> 0, strictRun |-> 0, looseRun |-> 0,
     resets |-> 0, samples |-> 0, spawned |-> FALSE, found |-> 0,
     starts |-> 0, idle |-> 0, touch |-> TouchHistInit, nose |-> NoNose,
     tilt |-> TiltHistInit]

HistAfter(name, emitted) ==
    LET gap == now - hist.lastAccept
        h1 == IF Has(emitted, "onShake")
              THEN [hist EXCEPT
                      !.lastAccept = now,
                      !.strictRun = IF hist.lastAccept # 0 /\ gap < shakeCountWindow
                                    THEN hist.strictRun + 1 ELSE 1,
                      !.looseRun = IF hist.lastAccept # 0 /\ gap <= shakeCountWindow
                                   THEN hist.looseRun + 1 ELSE 1]
              ELSE hist
        h2 == IF Has(emitted, "onOverheat") THEN [h1 EXCEPT !.overheatAt = now] ELSE h1
    IN IF name = "reset"
       THEN [h2 EXCEPT !.lastAccept = 0, !.strictRun = 0, !.looseRun = 0,
                       !.resets = Min(hist.resets + 1, MaxResets)]
       ELSE IF name = "handleMotion"
       THEN [h2 EXCEPT !.samples = Min(hist.samples + 1, MaxSamples)]
       ELSE h2

Commit(name, m) ==
    /\ ShakeDetection' = m.sd
    /\ timeouts' = m.to
    /\ out' = m.out
    /\ op' = name
    /\ hist' = HistAfter(name, m.out)
    /\ arg' = <<>>
    /\ ret' = NullResult
    /\ UNCHANGED <<now, chimneySystem, fogSystem, gameVars>>

enable == Commit("enable", [M0 EXCEPT !.sd.enabled = TRUE])

disable == Commit("disable", [M0 EXCEPT !.sd.enabled = FALSE])

manualTrigger == Commit("manualTrigger", manualTriggerBody(M0))

handleMotion == \E event \in MotionEvents : Commit("handleMotion", handleMotionBody(M0, event))

addCharge == Commit("addCharge", addChargeBody(M0))

resetCharges == Commit("resetCharges", resetChargesBody(M0))

reset == Commit("reset", resetBody(M0))

\* A due timer runs its callback (a timer runs once: it leaves `timeouts`).
shakeCountTimeout ==
    \E t \in timeouts :
        /\ t.fn = "shakeCount" /\ t.at <= now
        /\ Commit("shakeCountTimeout",
                  shakeCountTimeoutBody([M0 EXCEPT !.to = timeouts \ {t}]))

overheatTimeout ==
    \E t \in timeouts :
        /\ t.fn = "overheat" /\ t.at <= now
        /\ Commit("overheatTimeout",
                  overheatTimeoutBody([M0 EXCEPT !.to = timeouts \ {t}]))

\* The clock.  Every comparison the handlers make is of `now` against
\* lastShake plus a constant or against the instant a timer is due, so the
\* clock visits the instants at which one of them can change its outcome
\* (lastShake + d for d in `offsets`, and the instants timers are due), and
\* otherwise idles for Idle ms.  It waits for the timers that are due now.
Instants(offsets) ==
    {t.at : t \in timeouts}
    \cup {ShakeDetection.lastShake + d : d \in offsets}
    \cup {now + Idle}

NextInstant(offsets) ==
    LET later == {t \in Instants(offsets) : t > now}
    IN CHOOSE t \in later : \A u \in later : t <= u

Clock(limit, offsets) ==
    /\ now < StartTime + limit
    /\ \A t \in timeouts : t.at > now
    /\ now' = NextInstant(offsets)
    /\ op' = "tick"
    /\ out' = <<>>
    /\ arg' = <<>>
    /\ ret' = NullResult
    /\ UNCHANGED <<ShakeDetection, timeouts, chimneySystem, fogSystem, gameVars, hist>>

Tick == Clock(ShortTime, {Early, cooldown, cooldown + 1})

TickLong == Clock(MaxTime, {cooldown + 1, shakeCountWindow + 1})

\* The long-horizon specification bounds the motion samples and the resets.
handleMotionFew == hist.samples < MaxSamples /\ handleMotion

resetFew == hist.resets < MaxResets /\ reset

\* ------------------------------------------------- Game: objects
\* The device, as DeviceCompat reports it: a desktop (keyboard fallback), a
\* phone that asks for motion permission (iOS 13+) and one that does not.
Desktop == [needsFallbackControls |-> TRUE, needsMotionPermission |-> FALSE, hasTouch |-> FALSE]

PromptingPhone == [needsFallbackControls |-> FALSE, needsMotionPermission |-> TRUE, hasTouch |-> TRUE]

PlainPhone == [needsFallbackControls |-> FALSE, needsMotionPermission |-> FALSE, hasTouch |-> TRUE]

\* A touch-screen device without usable motion sensors.
TouchLaptop == [needsFallbackControls |-> TRUE, needsMotionPermission |-> FALSE, hasTouch |-> TRUE]

Devices == {Desktop, PromptingPhone, PlainPhone}

\* Outcomes of DeviceOrientationEvent / DeviceMotionEvent.requestPermission().
\* ("error": the request throws).
PermissionOutcomes == {"granted", "denied", "error"}

\* Levels.configs (chimneys, time in seconds, powerups) and the generated
\* levels.
LevelConfigs == << [chimneys |-> 5, time |-> 90, powerups |-> 3],
                   [chimneys |-> 8, time |-> 80, powerups |-> 4],
                   [chimneys |-> 10, time |-> 75, powerups |-> 4],
                   [chimneys |-> 12, time |-> 70, powerups |-> 5],
                   [chimneys |-> 15, time |-> 60, powerups |-> 5],
                   [chimneys |-> 20, time |-> 55, powerups |-> 6] >>

Max(a, b) == IF a > b THEN a ELSE b

getConfig(levelNumber) ==
    IF levelNumber > Len(LevelConfigs)
    THEN [id |-> levelNumber,
          chimneys |-> 15 + (levelNumber - 5) * 2,
          time |-> Max(45, 60 - (levelNumber - 5) * 3),
          powerups |-> IF 6 + (levelNumber - 5) \div 2 < 8
                       THEN 6 + (levelNumber - 5) \div 2 ELSE 8]
    ELSE [id |-> levelNumber,
          chimneys |-> LevelConfigs[levelNumber].chimneys,
          time |-> LevelConfigs[levelNumber].time,
          powerups |-> LevelConfigs[levelNumber].powerups]

\* Game.currentLevel before the first startLevel (null).
NullLevel == [id |-> 0, chimneys |-> 0, time |-> 0, powerups |-> 0]

\* Game.timer is kept in milliseconds (the code keeps seconds as a float and
\* subtracts deltaTime / 1000).
GameInit(device) ==
    [ state |-> "menu",
      isRunning |-> FALSE,
      lastTime |-> 0,
      deltaTime |-> 0,
      timer |-> 0,
      timeWarningPlayed |-> FALSE,
      score |-> 0,
      boostsUsed |-> 0,
      radarUsed |-> FALSE,
      usingFallbackControls |-> device.needsFallbackControls,
      animationFrameId |-> 0,
      currentLevel |-> NullLevel,
      rudolf |-> [x |-> 0, y |-> 0, radius |-> 0, isBoosting |-> FALSE,
                  isOverheated |-> FALSE, boostTimer |-> 0],
      sleigh |-> [hasCollidedThisLevel |-> FALSE] ]

\* UI.currentScreen, the pause overlay and what the result screens show.
UIInit ==
    [ currentScreen |-> "start",
      pauseOverlay |-> "hidden",
      failure |-> [chimneysFound |-> 0, chimneysTotal |-> 0, score |-> 0],
      success |-> [score |-> 0, timeLeft |-> 0, stars |-> 0] ]

\* TiltControls; calibration.isCalibrated is the field isCalibrated, angles are
\* held in units of 1 / AngleUnit degree, and `samples` is the array of the
\* calibration that is under way (a local of startCalibration).
TiltInit ==
    [ enabled |-> FALSE, hasPermission |-> FALSE, isInitialized |-> FALSE,
      useFallback |-> FALSE, isCalibrated |-> FALSE,
      gamma |-> 0, beta |-> 0,
      calibration |-> [gamma |-> 0, beta |-> 0],
      smoothedGamma |-> 0, smoothedBeta |-> 0,
      samples |-> <<>> ]

\* TouchControls; holdTimer is the handle of the hold timer (0 = null) and
\* activeTouches maps the identifiers of the recorded presses to their entries.
TouchInit ==
    [ enabled |-> FALSE,
      lastTap |-> 0,
      lastTapPosition |-> [x |-> 0, y |-> 0],
      isHolding |-> FALSE,
      holdTimer |-> 0,
      holdPosition |-> [x |-> 0, y |-> 0],
      lastRadar |-> 0,
      activeTouches |-> <<>>,
      isMouseDown |-> FALSE ]

\* No finger on the canvas, mouse button up.
PointersInit == [touches |-> {}, mouse |-> "up"]

\* Levels: highScores and starsEarned per configured level (0 = no entry yet)
\* and the set of unlocked levels. With it, localStorage as Levels sees it:
\* the item under 'rudolf_game_progress' (<<>> while there is none, otherwise
\* <<data>>) and whether setItem throws.
LevelsInit ==
    [ currentLevel |-> 1,
      highScores |-> [n \in 1..Len(LevelConfigs) |-> 0],
      starsEarned |-> [n \in 1..Len(LevelConfigs) |-> 0],
      unlocked |-> {1},
      stored |-> <<>>,
      storageFull |-> FALSE ]

\* The state after the page's scripts have run on `device`.
InitOn(device) ==
    /\ now = StartTime
    /\ ShakeDetection = ShakeInit
    /\ timeouts = {}
    /\ chimneySystem = ChimneyInit
    /\ fogSystem = FogInit
    /\ Game = GameInit(device)
    /\ UI = UIInit
    /\ TiltControls = TiltInit
    /\ TouchControls = TouchInit
    /\ Levels = LevelsInit
    /\ DeviceCompat = device
    /\ rafs = {}
    /\ pointers = PointersInit
    /\ op = "init"
    /\ arg = <<>>
    /\ out = <<>>
    /\ ret = NullResult
    /\ hist = HistInit

Init == InitOn(PlainPhone)

NextShake ==
    \/ enable
    \/ disable
    \/ manualTrigger
    \/ handleMotion
    \/ addCharge
    \/ resetCharges
    \/ reset
    \/ shakeCountTimeout
    \/ Tick

SpecShake == Init /\ [][NextShake]_vars

NextOverheat ==
    \/ enable
    \/ disable
    \/ manualTrigger
    \/ handleMotionFew
    \/ addCharge
    \/ resetCharges
    \/ resetFew
    \/ shakeCountTimeout
    \/ overheatTimeout
    \/ TickLong

SpecOverheat == Init /\ [][NextOverheat]_vars

\* ------------------------------------------------- ChimneySystem: handlers
\* The machine a ChimneySystem method starts from.
C0 == [cs |-> chimneySystem, out |-> <<>>, ret |-> NullResult]

\* History: whether the chimneys of the system come from spawnChimneys, and
\* the number of Haptics.chimneyFound notifications since they were spawned.
HistChimney(name, emitted) ==
    IF name = "spawnChimneys" THEN [hist EXCEPT !.spawned = TRUE, !.found = 0]
    ELSE IF name = "ChimneySystem_reset" THEN [hist EXCEPT !.spawned = FALSE, !.found = 0]
    ELSE [hist EXCEPT !.found = Min(hist.found + Count(emitted, "Haptics.chimneyFound"),
                                    MaxFound)]

CommitChimney(name, args, c) ==
    /\ chimneySystem' = c.cs
    /\ out' = c.out
    /\ ret' = c.ret
    /\ op' = name
    /\ arg' = args
    /\ hist' = HistChimney(name, c.out)
    /\ UNCHANGED <<now, ShakeDetection, timeouts, fogSystem, gameVars>>

CommitFog(name, args, fog) ==
    /\ fogSystem' = fog
    /\ out' = <<>>
    /\ ret' = NullResult
    /\ op' = name
    /\ arg' = args
    /\ hist' = HistFog(name, args)
    /\ UNCHANGED <<now, ShakeDetection, timeouts, chimneySystem, gameVars>>

\* Positions of Rudolf's nose and points the player taps (canvas pixels).
NosePoints == { <<80, 80>>, <<240, 80>> }

TapPoints ==
    { <<80, 80>>, <<95, 80>>, <<100, 80>>, <<120, 80>>, <<121, 80>>,
      <<80, 125>>, <<80, 126>>, <<240, 80>>, <<400, 300>> }

spawnChimneys ==
    \E count \in 0..MaxCount, stream \in RandomStreams :
        CommitChimney("spawnChimneys", <<count>>,
                      [spawnChimneysBody(C0, count, stream) EXCEPT
                          !.out = spawnLog(chimneySystem, count, stream)])

ChimneySystem_update ==
    CommitChimney("ChimneySystem_update", <<>>, ChimneySystem_updateBody(C0, fogSystem))

checkTap ==
    \E p \in TapPoints : CommitChimney("checkTap", p, checkTapBody(C0, p[1], p[2]))

markMissed ==
    \E i \in 1..Len(chimneySystem.chimneys) :
        CommitChimney("markMissed", <<i>>, markMissedBody(C0, i))

ChimneySystem_reset ==
    CommitChimney("ChimneySystem_reset", <<>>, ChimneySystem_resetBody(C0))

setNoseVisibility ==
    \E p \in NosePoints, radius \in {noseRadius, noseBoostRadius} :
        CommitFog("setNoseVisibility", <<p[1], p[2], radius>>,
                  setNoseVisibilityBody(fogSystem, p[1], p[2], radius))

FogSystem_reset == CommitFog("FogSystem_reset", <<>>, [fogSystem EXCEPT !.visibilityHoles = <<>>])

NextChimney ==
    \/ spawnChimneys
    \/ ChimneySystem_update
    \/ checkTap
    \/ markMissed
    \/ ChimneySystem_reset
    \/ setNoseVisibility
    \/ FogSystem_reset

SpecChimney == Init /\ [][NextChimney]_vars

\* ------------------------------------------------- ShakeDetection: properties
Attempt(o) == o \in {"manualTrigger", "handleMotion"}

\* What the checks of a trigger attempt require of the state it is made in.
CanTrigger ==
    /\ ShakeDetection.enabled
    /\ ShakeDetection.charges > 0
    /\ ~ShakeDetection.isOverheated
    /\ now - ShakeDetection.lastShake > cooldown

TriggerFieldsUnchanged ==
    /\ ShakeDetection'.charges = ShakeDetection.charges
    /\ ShakeDetection'.lastShake = ShakeDetection.lastShake
    /\ ShakeDetection'.shakeCount = ShakeDetection.shakeCount

\* C1: a trigger attempt (motion sample or manualTrigger) is accepted only when
\* detection is enabled, charges > 0, not overheated and the cooldown has
\* elapsed; accepting takes exactly one charge; a rejected attempt leaves
\* charges, lastShake and shakeCount as they were; manualTrigger is accepted
\* whenever those checks pass.
C1_TriggerGate ==
    [][ Attempt(op') =>
          /\ IF Has(out', "onShake")
             THEN CanTrigger /\ ShakeDetection'.charges = ShakeDetection.charges - 1
             ELSE TriggerFieldsUnchanged
          /\ (op' = "manualTrigger" /\ CanTrigger => Has(out', "onShake")) ]_vars

\* C1 witness: a manual attempt rejected by the cooldown alone, after an
\* accepted trigger took a charge.
C1_Witness ==
    /\ op = "manualTrigger" /\ out = <<>>
    /\ ShakeDetection.enabled /\ ~ShakeDetection.isOverheated
    /\ ShakeDetection.charges = maxCharges - 1
    /\ ShakeDetection.lastShake > 0
    /\ now - ShakeDetection.lastShake <= cooldown

FreshlyReset ==
    /\ ShakeDetection.enabled
    /\ ShakeDetection.charges = 3
    /\ ShakeDetection.lastShake = 0
    /\ ~ShakeDetection.isOverheated
    /\ ShakeDetection.shakeCount = 0

\* C2: from a freshly reset ShakeDetection a manual attempt is accepted
\* (charges 3 -> 2); an attempt 500 ms after that trigger is rejected (charges
\* stays 2); an attempt 2001 ms after it is accepted (charges 2 -> 1); and any
\* attempt no more than 2000 ms after the last accepted trigger (since the last
\* reset) is rejected and changes nothing.
C2_Cooldown ==
    [][ Attempt(op') =>
          /\ (op' = "manualTrigger" /\ FreshlyReset =>
                /\ Has(out', "onShake")
                /\ ShakeDetection'.charges = 2
                /\ ShakeDetection'.lastShake = now)
          /\ (ShakeDetection.charges = 2 /\ now = ShakeDetection.lastShake + 500 =>
                ~Has(out', "onShake") /\ ShakeDetection'.charges = 2)
          /\ ((/\ op' = "manualTrigger"
               /\ ShakeDetection.enabled /\ ~ShakeDetection.isOverheated
               /\ ShakeDetection.charges = 2
               /\ now = ShakeDetection.lastShake + 2001) =>
                Has(out', "onShake") /\ ShakeDetection'.charges = 1)
          /\ (hist.lastAccept # 0 /\ now - hist.lastAccept <= 2000 =>
                /\ ~Has(out', "onShake")
                /\ TriggerFieldsUnchanged
                /\ timeouts' = timeouts
                /\ (op' = "manualTrigger" => ShakeDetection' = ShakeDetection)) ]_vars

\* C2 witness: the trigger accepted 2001 ms after the first one, which was
\* made at the instant of construction; one charge is left.
C2_Witness ==
    /\ op = "manualTrigger" /\ Has(out, "onShake")
    /\ ShakeDetection.charges = 1
    /\ ShakeDetection.lastShake = StartTime + 2001
    /\ now = StartTime + 2001

\* C3: isOverheated is set only by an accepted trigger that is at least the
\* 5th of a run whose gaps are no longer than shakeCountWindow, and the counter
\* is 0 afterwards; the 5th trigger of a run whose gaps are all shorter than
\* the window always sets it; a trigger that is not the 5th of such a run
\* never does.
C3_OverheatEntry ==
    [][ LET entered == ~ShakeDetection.isOverheated /\ ShakeDetection'.isOverheated
            accepted == Has(out', "onShake")
        IN /\ (entered =>
                 /\ accepted
                 /\ hist'.looseRun >= maxRapidShakes
                 /\ ShakeDetection'.shakeCount = 0)
           /\ (accepted /\ hist'.strictRun >= 5 => entered)
           /\ (accepted /\ hist'.looseRun < 5 => ~ShakeDetection'.isOverheated) ]_vars

\* C3 witness: the 5th trigger of a run has just been accepted and the
\* detector is overheated.
C3_Witness ==
    /\ ShakeDetection.isOverheated
    /\ Has(out, "onOverheat")
    /\ hist.strictRun = 5
    /\ ShakeDetection.shakeCount = 0

\* C4: while isOverheated every attempt is rejected, whatever the charges and
\* the cooldown; isOverheated is cleared only by the recovery timer, exactly
\* overheatDuration after it was set, or by reset(); it never lasts longer.
C4_OverheatLockout ==
    [][ /\ (Attempt(op') /\ ShakeDetection.isOverheated =>
              /\ ~Has(out', "onShake")
              /\ TriggerFieldsUnchanged
              /\ ShakeDetection'.isOverheated)
        /\ (ShakeDetection.isOverheated /\ ~ShakeDetection'.isOverheated =>
              \/ op' = "overheatTimeout" /\ now = hist.overheatAt + 5000
              \/ op' = "reset")
        /\ (ShakeDetection'.isOverheated => now' <= hist'.overheatAt + 5000) ]_vars

\* C4 witness: a manual attempt made while overheated, with a charge left and
\* the cooldown over, was rejected.
C4_Witness ==
    /\ op = "manualTrigger" /\ out = <<>>
    /\ ShakeDetection.isOverheated
    /\ ShakeDetection.enabled
    /\ ShakeDetection.charges > 0
    /\ now - ShakeDetection.lastShake > cooldown

\* ------------------------------------------------- ChimneySystem: properties
\* The step keeps the chimneys of the last spawn (no spawn, no reset).
SameSpawn == op' \notin {"spawnChimneys", "ChimneySystem_reset"}


Outstanding(cs) == {i \in 1..Len(cs.chimneys) : ~Terminal(cs.chimneys[i])}

\* The bounding box of a chimney (centred on its position) grown by hitPadding.
InHitBox(chimney, x, y) ==
    /\ Abs(x - chimney.x) <= chimneyWidth \div 2 + hitPadding
    /\ Abs(y - chimney.y) <= chimneyHeight \div 2 + hitPadding

\* C5: a target becomes delivered only by a tap inside its bounding box grown
\* by the 20 px padding while it is visible and outstanding; delivered and
\* missed exclude each other and stay set until the next spawn/reset; and
\* markMissed or a tap on a delivered or missed target changes nothing and
\* emits nothing.
C5_DeliveryOnlyByTap ==
    [][ SameSpawn =>
          /\ Len(chimneySystem'.chimneys) = Len(chimneySystem.chimneys)
          /\ \A i \in 1..Len(chimneySystem.chimneys) :
               LET a == chimneySystem.chimneys[i]
                   b == chimneySystem'.chimneys[i]
               IN /\ (~a.delivered /\ b.delivered =>
                        /\ op' = "checkTap"
                        /\ a.visible /\ ~a.missed
                        /\ InHitBox(a, arg'[1], arg'[2]))
                  /\ (a.delivered => b.delivered /\ ~b.missed)
                  /\ (a.missed => b.missed /\ ~b.delivered)
                  /\ ~(b.delivered /\ b.missed)
                  /\ (Terminal(a) /\ op' = "markMissed" /\ arg' = <<i>> =>
                        chimneySystem' = chimneySystem /\ out' = <<>>)
                  /\ ((/\ Terminal(a)
                       /\ op' = "checkTap"
                       /\ InHitBox(a, arg'[1], arg'[2])) =>
                        chimneySystem' = chimneySystem /\ out' = <<>>) ]_vars

\* C5 witness: a second tap on the edge of the hit box of a chimney that a tap
\* has delivered; it emitted nothing.
C5_Witness ==
    /\ op = "checkTap" /\ arg = <<120, 80>> /\ out = <<>>
    /\ Len(chimneySystem.chimneys) >= 1
    /\ chimneySystem.chimneys[1].delivered
    /\ chimneySystem.deliveredCount = 1

\* C6 as stated: a target turns from hidden to visible only if it was never
\* spotted before, and the notification is sent once for each target that is
\* spotted for the first time (never again on re-entering a clear region).
C6_OncePerSpawn ==
    [][ op' = "ChimneySystem_update" =>
          /\ \A i \in 1..Len(chimneySystem.chimneys) :
               LET a == chimneySystem.chimneys[i]
                   b == chimneySystem'.chimneys[i]
               IN ~a.visible /\ b.visible => ~a.spotted
          /\ Count(out', "Haptics.chimneyFound") =
               Cardinality({i \in 1..Len(chimneySystem.chimneys) :
                              /\ ~chimneySystem.chimneys[i].spotted
                              /\ chimneySystem'.chimneys[i].spotted}) ]_vars

\* C6 amended: on every tick the visible flag of each outstanding target is
\* set to whether a hole covers it within 0.8 x its radius, so it turns from
\* hidden to visible every time the target enters a clear region; every such
\* turn sends the notification; only spotted is one-shot: it is set on the
\* first such turn and never cleared before the next spawn/reset.
C6_VisibleFollowsFog ==
    [][ /\ (SameSpawn =>
              \A i \in 1..Len(chimneySystem.chimneys) :
                  chimneySystem.chimneys[i].spotted => chimneySystem'.chimneys[i].spotted)
        /\ (op' = "ChimneySystem_update" =>
              /\ \A i \in 1..Len(chimneySystem.chimneys) :
                   LET a == chimneySystem.chimneys[i]
                       b == chimneySystem'.chimneys[i]
                       covered == isPointVisible(fogSystem, a.x, a.y)
                   IN IF Terminal(a) THEN b = a
                      ELSE b = [a EXCEPT !.visible = covered,
                                         !.spotted = a.spotted \/ covered]
              /\ Count(out', "Haptics.chimneyFound") =
                   Cardinality({i \in Outstanding(chimneySystem) :
                                  /\ ~chimneySystem.chimneys[i].visible
                                  /\ chimneySystem'.chimneys[i].visible})) ]_vars

\* C6 witness: the only chimney of the level has just become visible and the
\* notification was sent for the second time since it was spawned.
C6_Witness ==
    /\ op = "ChimneySystem_update"
    /\ out = <<"Haptics.chimneyFound">>
    /\ Len(chimneySystem.chimneys) = 1
    /\ chimneySystem.chimneys[1].visible
    /\ hist.found = 2

\* C7: after spawnChimneys(count), for every spawn outcome, delivered + missed
\* + outstanding equals totalRequired.
C7_TotalsAddUp ==
    hist.spawned =>
        chimneySystem.deliveredCount + chimneySystem.missedCount
            + Cardinality(Outstanding(chimneySystem))
        = chimneySystem.totalRequired

\* ------------------------------------------------- Game: handlers
\* Operators on a "world" w: the objects a Game handler reads and writes, the
\* pending timeouts and animation frames, the host clock w.time at which the
\* handler runs, and the calls it has logged so far (w.out).
W0 ==
    [ Game |-> Game, UI |-> UI, TiltControls |-> TiltControls,
      ShakeDetection |-> ShakeDetection, TouchControls |-> TouchControls,
      Levels |-> Levels, DeviceCompat |-> DeviceCompat,
      chimneySystem |-> chimneySystem, fogSystem |-> fogSystem,
      timeouts |-> timeouts, rafs |-> rafs, pointers |-> pointers,
      time |-> now, out |-> <<>>, ret |-> NullResult ]

Log(w, call) == [w EXCEPT !.out = Append(w.out, call)]

showScreen(w, screenName) == [w EXCEPT !.UI.currentScreen = screenName]

\* requestPermission() of TiltControls and ShakeDetection: what it does to the
\* object's hasPermission / useFallback for the device and the prompt's outcome.
requestPermission(obj, device, outcome) ==
    IF device.needsFallbackControls THEN [obj EXCEPT !.useFallback = TRUE]
    ELSE IF device.needsMotionPermission
    THEN IF outcome = "granted" THEN [obj EXCEPT !.hasPermission = TRUE]
         ELSE IF outcome = "denied"
         THEN [obj EXCEPT !.hasPermission = FALSE, !.useFallback = TRUE]
         ELSE [obj EXCEPT !.useFallback = TRUE]
    ELSE [obj EXCEPT !.hasPermission = TRUE]

\* init() of TiltControls and ShakeDetection.
initControls(obj, device, outcome) ==
    IF obj.isInitialized THEN obj
    ELSE [requestPermission(obj, device, outcome) EXCEPT !.isInitialized = TRUE]

\* TouchControls.cancelInteraction
cancelInteractionBody(w) ==
    [w EXCEPT !.timeouts = clearTimeout(w.timeouts, "hold", w.TouchControls.holdTimer),
              !.TouchControls.holdTimer = 0,
              !.TouchControls.isHolding = FALSE,
              !.TouchControls.activeTouches = <<>>]

\* TouchControls.disable
TouchControls_disableBody(w) ==
    [cancelInteractionBody([w EXCEPT !.TouchControls.enabled = FALSE])
        EXCEPT !.TouchControls.isMouseDown = FALSE]

disableControls(w) ==
    TouchControls_disableBody([w EXCEPT !.TiltControls.enabled = FALSE,
                                        !.ShakeDetection.enabled = FALSE])

enableControls(w) ==
    [w EXCEPT !.TiltControls.enabled = TRUE,
              !.ShakeDetection.enabled = TRUE,
              !.TouchControls.enabled = TRUE]

\* requestAnimationFrame: the handle is one no pending frame and no stored
\* handle uses.
requestAnimationFrame(w) ==
    LET used == w.rafs \cup {w.Game.animationFrameId, 0}
        id == CHOOSE i \in 1..(Cardinality(used) + 1) : i \notin used
    IN [w EXCEPT !.rafs = w.rafs \cup {id}, !.Game.animationFrameId = id]

\* Mutant: the pending frame is not cancelled.
cancelAnimationFrame_none(w) == w

cancelAnimationFrame(w) == [w EXCEPT !.rafs = w.rafs \ {w.Game.animationFrameId}]

initGameObjects(w) ==
    LET c == ChimneySystem_resetBody([cs |-> w.chimneySystem, out |-> <<>>,
                                      ret |-> NullResult])
    IN [w EXCEPT !.Game.rudolf = [x |-> w.chimneySystem.width \div 2,
                                  y |-> w.chimneySystem.height \div 2,
                                  radius |-> noseRadius,
                                  isBoosting |-> FALSE,
                                  isOverheated |-> FALSE,
                                  boostTimer |-> 0],
                 !.timeouts = IF w.Game.rudolf.boostTimer # 0
                              THEN clearTimeout(w.timeouts, "boost", w.Game.rudolf.boostTimer)
                              ELSE w.timeouts,
                 !.Game.sleigh.hasCollidedThisLevel = FALSE,
                 !.fogSystem.visibilityHoles = <<>>,
                 !.chimneySystem = c.cs]

startLevelBody(w, levelNumber, stream) ==
    LET config == getConfig(Max(1, levelNumber))
        w1 == [w EXCEPT !.Levels.currentLevel = Max(1, levelNumber),
                        !.Game.currentLevel = config,
                        !.Game.score = 0,
                        !.Game.timer = config.time * 1000,
                        !.Game.boostsUsed = 0,
                        !.Game.radarUsed = FALSE,
                        !.Game.timeWarningPlayed = FALSE]
        w2 == initGameObjects(w1)
        c == spawnChimneysBody([cs |-> w2.chimneySystem, out |-> <<>>, ret |-> NullResult],
                               config.chimneys, stream)
        w3 == [showScreen(Log(w2, "Game.startLevel"), "game") EXCEPT
                                            !.chimneySystem = c.cs,
                                            !.Game.state = "playing",
                                            !.Game.isRunning = TRUE]
        m == resetBody([sd |-> [w3.ShakeDetection EXCEPT !.enabled = TRUE],
                        to |-> w3.timeouts, out |-> <<>>])
        w4 == [w3 EXCEPT !.TiltControls.enabled = TRUE,
                         !.ShakeDetection = m.sd,
                         !.timeouts = m.to,
                         !.TouchControls.enabled = TRUE,
                         !.out = w3.out \o m.out]
        w5 == IF w4.Game.animationFrameId # 0 THEN cancelAnimationFrame(w4) ELSE w4
    IN requestAnimationFrame([w5 EXCEPT !.Game.lastTime = w.time])

\* TiltControls.startCalibration with the callbacks calibrate() passes: with
\* the keyboard it completes at once, otherwise after sampleCount samples
\* taken sampleInterval apart; completion starts the level 100 ms later.
sampleCount == 30
sampleInterval == 100
startLevelDelay == 100

calibrationComplete(w) ==
    [w EXCEPT !.TiltControls.isCalibrated = TRUE,
              !.timeouts = w.timeouts \cup
                  {[fn |-> "startLevel", at |-> w.time + startLevelDelay]},
              !.out = Append(w.out, "UI.showToast")]

startCalibration(w) ==
    IF w.TiltControls.useFallback THEN calibrationComplete(w)
    ELSE [w EXCEPT !.TiltControls.enabled = TRUE,
                   !.timeouts = w.timeouts \cup
                       {[fn |-> "calibration",
                         at |-> w.time + (sampleCount - 1) * sampleInterval]}]

calibrateBody(w, stream) ==
    IF w.Game.usingFallbackControls
    THEN startLevelBody(w, w.Levels.currentLevel, stream)
    ELSE startCalibration([showScreen(w, "calibration") EXCEPT !.TiltControls.enabled = TRUE])

\* Mutant: without the sensors the player stays where the request was made.
requestPermissionsBody_stay(w, tiltOutcome, shakeOutcome, stream) ==
    LET w1 == [w EXCEPT
                 !.TiltControls = initControls(w.TiltControls, w.DeviceCompat, tiltOutcome),
                 !.ShakeDetection = initControls(w.ShakeDetection, w.DeviceCompat, shakeOutcome)]
    IN IF w1.TiltControls.useFallback \/ w1.ShakeDetection.useFallback
       THEN w1
       ELSE calibrateBody(w1, stream)

requestPermissionsBody(w, tiltOutcome, shakeOutcome, stream) ==
    LET w1 == [w EXCEPT
                 !.TiltControls = initControls(w.TiltControls, w.DeviceCompat, tiltOutcome),
                 !.ShakeDetection = initControls(w.ShakeDetection, w.DeviceCompat, shakeOutcome)]
    IN IF w1.TiltControls.useFallback \/ w1.ShakeDetection.useFallback
       THEN startLevelBody([w1 EXCEPT !.Game.usingFallbackControls = TRUE],
                           w1.Levels.currentLevel, stream)
       ELSE calibrateBody(w1, stream)

handlePlayClickBody(w, tiltOutcome, shakeOutcome, stream) ==
    IF w.Game.usingFallbackControls
    THEN startLevelBody(
             [w EXCEPT
                !.TiltControls = initControls(w.TiltControls, w.DeviceCompat, tiltOutcome),
                !.ShakeDetection = initControls(w.ShakeDetection, w.DeviceCompat, shakeOutcome)],
             w.Levels.currentLevel, stream)
    ELSE IF ~w.TiltControls.hasPermission
    THEN IF w.DeviceCompat.needsMotionPermission
         THEN showScreen(w, "permission")
         ELSE requestPermissionsBody(w, tiltOutcome, shakeOutcome, stream)
    ELSE IF ~w.TiltControls.isCalibrated
    THEN calibrateBody(w, stream)
    ELSE startLevelBody(w, w.Levels.currentLevel, stream)

\* Mutant: the time bonus is left out.
calculateBonus_noTimeBonus(timeLeft, allDelivered, noBoosts, sleighUntouched, noRadar) ==
    (IF allDelivered THEN 500 ELSE 0)
    + (IF noBoosts THEN 200 ELSE 0)
    + (IF sleighUntouched THEN 300 ELSE 0)
    + (IF noRadar THEN 100 ELSE 0)

\* Levels.calculateBonus(...).total; timeLeft in whole seconds.
calculateBonus(timeLeft, allDelivered, noBoosts, sleighUntouched, noRadar) ==
    (IF timeLeft > 0 THEN timeLeft * 10 ELSE 0)
    + (IF allDelivered THEN 500 ELSE 0)
    + (IF noBoosts THEN 200 ELSE 0)
    + (IF sleighUntouched THEN 300 ELSE 0)
    + (IF noRadar THEN 100 ELSE 0)

\* Levels.save: the progress written as one item, config.unlocked as a list
\* of flags in the order of the configs; a write that throws is swallowed.
\* The form of an item says what JSON.parse makes of it: "object" (an object
\* with a list under unlocked, as save writes it), "noList" (an object whose
\* unlocked is something else than a list) or "garbage" (no JSON at all).
save(levels) ==
    IF levels.storageFull THEN levels
    ELSE [levels EXCEPT !.stored =
              << [ form |-> "object",
                   highScores |-> levels.highScores,
                   starsEarned |-> levels.starsEarned,
                   unlocked |-> [n \in 1..Len(LevelConfigs) |-> n \in levels.unlocked] ] >>]

\* Mutant: the stars are not taken from the stored item.
load_noStars(levels) ==
    IF Len(levels.stored) = 0 \/ levels.stored[1].form = "garbage" THEN levels
    ELSE LET data == levels.stored[1]
             listed == {n \in 1..Len(data.unlocked) : n <= Len(LevelConfigs)}
             l1 == [levels EXCEPT !.highScores = data.highScores]
         IN IF data.form = "noList" THEN l1
            ELSE [l1 EXCEPT !.unlocked = (levels.unlocked \ listed)
                                         \cup {n \in listed : data.unlocked[n]}]

\* Levels.load: nothing without an item or when JSON.parse throws; otherwise
\* the scores and stars are replaced, and then each stored flag is written
\* over its config's, unless unlocked is no list: forEach then throws, which
\* is caught with the scores and stars already replaced.
load(levels) ==
    IF Len(levels.stored) = 0 \/ levels.stored[1].form = "garbage" THEN levels
    ELSE LET data == levels.stored[1]
             listed == {n \in 1..Len(data.unlocked) : n <= Len(LevelConfigs)}
             l1 == [levels EXCEPT !.highScores = data.highScores,
                                  !.starsEarned = data.starsEarned]
         IN IF data.form = "noList" THEN l1
            ELSE [l1 EXCEPT !.unlocked = (levels.unlocked \ listed)
                                         \cup {n \in listed : data.unlocked[n]}]

\* Levels.unlockLevel
unlockLevel(levels, levelNumber) ==
    IF levelNumber <= Len(LevelConfigs)
    THEN save([levels EXCEPT !.unlocked = levels.unlocked \cup {levelNumber}])
    ELSE levels

\* Levels.isUnlocked
isUnlocked(levels, levelNumber) ==
    IF levelNumber > Len(LevelConfigs) THEN Len(LevelConfigs) \in levels.unlocked
    ELSE levelNumber \in levels.unlocked

\* Mutant: the next level is unlocked whether or not all was delivered.
recordScore_always(levels, levelNumber, score, timeLeft, allDelivered, noBoosts, sleighUntouched, noRadar) ==
    LET config == getConfig(levelNumber)
        stars == (IF allDelivered THEN 1 ELSE 0)
                 + (IF allDelivered /\ timeLeft * 10 > config.time * 2 THEN 1 ELSE 0)
                 + (IF allDelivered /\ noBoosts /\ sleighUntouched /\ noRadar THEN 1 ELSE 0)
        l1 == IF levels.highScores[levelNumber] = 0 \/ score > levels.highScores[levelNumber]
              THEN [levels EXCEPT !.highScores[levelNumber] = score]
              ELSE levels
        l2 == IF l1.starsEarned[levelNumber] = 0 \/ stars > l1.starsEarned[levelNumber]
              THEN [l1 EXCEPT !.starsEarned[levelNumber] = stars]
              ELSE l1
        l3 == unlockLevel(l2, levelNumber + 1)
    IN [levels |-> save(l3), stars |-> stars]

\* Levels.recordScore: the Levels object afterwards and the stars returned.
recordScore(levels, levelNumber, score, timeLeft, allDelivered, noBoosts, sleighUntouched, noRadar) ==
    LET config == getConfig(levelNumber)
        stars == (IF allDelivered THEN 1 ELSE 0)
                 + (IF allDelivered /\ timeLeft * 10 > config.time * 2 THEN 1 ELSE 0)
                 + (IF allDelivered /\ noBoosts /\ sleighUntouched /\ noRadar THEN 1 ELSE 0)
        l1 == IF levels.highScores[levelNumber] = 0 \/ score > levels.highScores[levelNumber]
              THEN [levels EXCEPT !.highScores[levelNumber] = score]
              ELSE levels
        l2 == IF l1.starsEarned[levelNumber] = 0 \/ stars > l1.starsEarned[levelNumber]
              THEN [l1 EXCEPT !.starsEarned[levelNumber] = stars]
              ELSE l1
        l3 == IF allDelivered THEN unlockLevel(l2, levelNumber + 1) ELSE l2
    IN [levels |-> save(l3), stars |-> stars]

handleLevelCompleteBody(w) ==
    LET sleighUntouched == ~w.Game.sleigh.hasCollidedThisLevel
        w1 == disableControls([w EXCEPT !.Game.state = "success",
                                        !.Game.isRunning = FALSE])
        \* Math.ceil(this.timer), the timer being kept in milliseconds
        timeLeft == (w1.Game.timer + 999) \div 1000
        noBoosts == w1.Game.boostsUsed = 0
        noRadar == ~w1.Game.radarUsed
        bonus == calculateBonus(timeLeft, TRUE, noBoosts, sleighUntouched, noRadar)
        score == w1.Game.score + bonus
        rec == recordScore(w1.Levels, w1.Levels.currentLevel, score, timeLeft, TRUE,
                           noBoosts, sleighUntouched, noRadar)
        w2 == [w1 EXCEPT !.Game.score = score,
                         !.Levels = rec.levels,
                         !.UI.success = [score |-> score, timeLeft |-> timeLeft,
                                         stars |-> rec.stars]]
    IN Log(Log(Log(showScreen(w2, "success"), "Levels.recordScore"), "UI.showSuccess"),
           "Haptics.success")

\* Mutant: handleTimeOut leaves the game playing.
handleTimeOutBody_playing(w) ==
    LET w1 == disableControls([w EXCEPT !.Game.isRunning = FALSE])
        w2 == [w1 EXCEPT !.UI.failure =
                   [chimneysFound |-> w1.chimneySystem.deliveredCount,
                    chimneysTotal |-> w1.Game.currentLevel.chimneys,
                    score |-> w1.Game.score]]
    IN Log(Log(showScreen(w2, "failure"), "UI.showFailure"), "Haptics.gameOver")

handleTimeOutBody(w) ==
    LET w1 == disableControls([w EXCEPT !.Game.state = "gameover",
                                        !.Game.isRunning = FALSE])
        w2 == [w1 EXCEPT !.UI.failure =
                   [chimneysFound |-> w1.chimneySystem.deliveredCount,
                    chimneysTotal |-> w1.Game.currentLevel.chimneys,
                    score |-> w1.Game.score]]
    IN Log(Log(showScreen(w2, "failure"), "UI.showFailure"), "Haptics.gameOver")

\* The part of update() after the timeout check.  rudolf.update is not
\* computed: the nose ends the tick at `nose` with visibility radius `radius`.
updateWorld(w, nose, radius) ==
    LET w1 == Log(w, "TiltControls.getVelocity")
        w2 == Log([w1 EXCEPT !.Game.rudolf.x = nose[1], !.Game.rudolf.y = nose[2],
                             !.Game.rudolf.radius = radius],
                  "rudolf.update")
        w3 == Log([w2 EXCEPT !.fogSystem =
                       setNoseVisibilityBody(w2.fogSystem, nose[1], nose[2], radius)],
                  "fogSystem.setNoseVisibility")
        w4 == Log([Log(w3, "sleigh.update") EXCEPT
                       !.fogSystem = FogSystem_updateBody(w3.fogSystem, w3.time)],
                  "fogSystem.update")
        c == ChimneySystem_updateBody([cs |-> w4.chimneySystem, out |-> <<>>,
                                       ret |-> NullResult], w4.fogSystem)
        w5 == [w4 EXCEPT !.chimneySystem = c.cs,
                         !.out = Append(w4.out, "chimneySystem.update") \o c.out]
    IN Log(Log(w5, "powerUpSystem.update"), "powerUpSystem.checkCollision")

timeWarningAt == 10000

\* Mutant: update() goes on after handleTimeOut().
updateBody_noReturn(w, deltaTime, nose, radius) ==
    LET w1 == Log([w EXCEPT !.Game.timer = w.Game.timer - deltaTime], "UI.updateTimer")
        w2 == IF w1.Game.timer <= timeWarningAt /\ ~w1.Game.timeWarningPlayed
              THEN Log([w1 EXCEPT !.Game.timeWarningPlayed = TRUE], "Haptics.timeWarning")
              ELSE w1
    IN IF w2.Game.timer <= 0 THEN updateWorld(handleTimeOutBody(w2), nose, radius)
       ELSE updateWorld(w2, nose, radius)

updateBody(w, deltaTime, nose, radius) ==
    LET w1 == Log([w EXCEPT !.Game.timer = w.Game.timer - deltaTime], "UI.updateTimer")
        w2 == IF w1.Game.timer <= timeWarningAt /\ ~w1.Game.timeWarningPlayed
              THEN Log([w1 EXCEPT !.Game.timeWarningPlayed = TRUE], "Haptics.timeWarning")
              ELSE w1
    IN IF w2.Game.timer <= 0 THEN handleTimeOutBody(w2)
       ELSE updateWorld(w2, nose, radius)

maxDeltaTime == 100

\* What ChimneySystem.draw paints: a house and a chimney for every target
\* that is neither delivered nor missed.
ChimneySystem_draw(cs) ==
    LET open == SelectSeq(cs.chimneys, LAMBDA chimney : ~chimney.delivered /\ ~chimney.missed)
    IN [k \in 1..(2 * Len(open)) |-> IF k % 2 = 1 THEN "drawHouse" ELSE "drawChimney"]

\* What FogSystem.render paints: the fog, then one cut-out per visibility hole.
FogSystem_render(fog) ==
    <<"fogCtx.fillRect">> \o [k \in 1..Len(fog.visibilityHoles) |-> "fogCtx.arc"]
    \o <<"ctx.drawImage">>

\* Mutant: a target that has been painted counts as spotted.
renderBody_spot(w) ==
    [w EXCEPT !.out = w.out \o <<"render", "ctx.fillRect", "drawBackground">>
                      \o ChimneySystem_draw(w.chimneySystem)
                      \o <<"powerUpSystem.draw", "sleigh.draw", "rudolf.draw">>
                      \o FogSystem_render(w.fogSystem),
              !.chimneySystem.chimneys =
                  [i \in 1..Len(w.chimneySystem.chimneys) |->
                      [w.chimneySystem.chimneys[i] EXCEPT
                          !.spotted = @ \/ ~Terminal(w.chimneySystem.chimneys[i])]]]

\* Game.render(): the calls that paint the canvas, in order (no power-up
\* effect is active, so no effect indicator is drawn).
renderBody(w) ==
    [w EXCEPT !.out = w.out \o <<"render", "ctx.fillRect", "drawBackground">>
                      \o ChimneySystem_draw(w.chimneySystem)
                      \o <<"powerUpSystem.draw", "sleigh.draw", "rudolf.draw">>
                      \o FogSystem_render(w.fogSystem)]

\* Mutant: the time since the previous frame is not capped.
gameLoopBody_noCap(w, nose, radius) ==
    IF ~w.Game.isRunning THEN w
    ELSE LET deltaTime == w.time - w.Game.lastTime
             w1 == [w EXCEPT !.Game.deltaTime = deltaTime, !.Game.lastTime = w.time]
             w2 == IF w1.Game.state = "playing"
                   THEN updateBody(w1, deltaTime, nose, radius)
                   ELSE w1
         IN requestAnimationFrame(renderBody(w2))

\* gameLoop(currentTime) with currentTime = w.time.
gameLoopBody(w, nose, radius) ==
    IF ~w.Game.isRunning THEN w
    ELSE LET deltaTime == Min(w.time - w.Game.lastTime, maxDeltaTime)
             w1 == [w EXCEPT !.Game.deltaTime = deltaTime, !.Game.lastTime = w.time]
             w2 == IF w1.Game.state = "playing"
                   THEN updateBody(w1, deltaTime, nose, radius)
                   ELSE w1
         IN requestAnimationFrame(renderBody(w2))

\* The animation frame `id` fires `gap` ms after the previous event.
frame(w, id, gap, nose, radius) ==
    gameLoopBody([w EXCEPT !.rafs = w.rafs \ {id}, !.time = w.time + gap,
                           !.out = <<>>],
                 nose, radius)

\* k consecutive frames maxDeltaTime apart with no other event between them
\* and the device held still (k is halved to keep the evaluation shallow).
RECURSIVE RunFrames(_, _)
RunFrames(w, k) ==
    IF k = 0 \/ w.rafs = {} THEN w
    ELSE IF k = 1
    THEN frame(w, CHOOSE id \in w.rafs : TRUE, maxDeltaTime,
               <<w.Game.rudolf.x, w.Game.rudolf.y>>, w.Game.rudolf.radius)
    ELSE LET first == RunFrames(w, k \div 2)
         IN IF first.rafs = {} THEN first
            ELSE RunFrames(first, k - k \div 2)

\* Game.handleTap with the canvas at the page origin and devicePixelRatio 1,
\* followed by the callbacks ChimneySystem calls (onDelivery, onAllDelivered).
\* Mutant: the tap also reaches a chimney the fog still hides.
handleTapBody_blind(w, x, y) ==
    LET c == checkTapBody_hiddenToo([cs |-> w.chimneySystem, out |-> <<>>, ret |-> NullResult], x, y)
        w1 == [w EXCEPT !.chimneySystem = c.cs, !.out = w.out \o c.out, !.ret = c.ret]
        w2 == IF Has(c.out, "onDelivery")
              THEN Log([w1 EXCEPT !.Game.score = w1.Game.score + c.ret.points],
                       "UI.updateScore")
              ELSE w1
    IN IF Has(c.out, "onAllDelivered") THEN handleLevelCompleteBody(w2)
       ELSE w2

handleTapBody(w, x, y) ==
    LET c == checkTapBody([cs |-> w.chimneySystem, out |-> <<>>, ret |-> NullResult], x, y)
        w1 == [w EXCEPT !.chimneySystem = c.cs, !.out = w.out \o c.out, !.ret = c.ret]
        w2 == IF Has(c.out, "onDelivery")
              THEN Log([w1 EXCEPT !.Game.score = w1.Game.score + c.ret.points],
                       "UI.updateScore")
              ELSE w1
    IN IF Has(c.out, "onAllDelivered") THEN handleLevelCompleteBody(w2)
       ELSE w2

\* Mutant: pause() without its state check.
pauseBody_noGuard(w) ==
    disableControls([w EXCEPT !.Game.state = "paused", !.UI.pauseOverlay = "shown"])

\* Mutant: pause() leaves the controls enabled.
pauseBody_live(w) ==
    IF w.Game.state # "playing" THEN w
    ELSE [w EXCEPT !.Game.state = "paused", !.UI.pauseOverlay = "shown"]

pauseBody(w) ==
    IF w.Game.state # "playing" THEN w
    ELSE disableControls([w EXCEPT !.Game.state = "paused", !.UI.pauseOverlay = "shown"])

resumeBody(w) ==
    IF w.Game.state # "paused" THEN w
    ELSE enableControls([w EXCEPT !.Game.state = "playing", !.Game.lastTime = w.time])

quitBody(w) ==
    LET w1 == [w EXCEPT !.Game.state = "menu", !.Game.isRunning = FALSE]
        w2 == IF w1.Game.animationFrameId # 0
              THEN [cancelAnimationFrame(w1) EXCEPT !.Game.animationFrameId = 0]
              ELSE w1
    IN showScreen(disableControls(w2), "start")

\* ------------------------------------------------- Game: events
\* History: the levels started so far, the frames that ran without update()
\* since the last start, and the chimney history of HistChimney.
HistGame(name, w) ==
    LET started == Has(w.out, "Game.startLevel")
        h1 == IF started
              THEN [hist EXCEPT !.starts = hist.starts + 1, !.idle = 0,
                                !.spawned = TRUE, !.found = 0]
              ELSE [hist EXCEPT !.found = Min(hist.found
                                              + Count(w.out, "Haptics.chimneyFound"),
                                              MaxFound)]
    IN IF name = "gameLoop" /\ ~Has(w.out, "UI.updateTimer")
       THEN [h1 EXCEPT !.idle = hist.idle + 1]
       ELSE h1

\* History of the pointer gestures (no handler reads it).  A press is a
\* pointer-down delivered while input is enabled that reports one pointer;
\* `pressed` holds the pointers whose press is still active (not released,
\* not cancelled by touchcancel, mouseleave or disable, not turned into a
\* two-finger gesture), `origin` and `pressAt` are where and when the latest
\* press happened, `dragged` whether the pointer has moved more than 20 px
\* from the origin before the hold fired, `held` whether the hold fired,
\* `twoFinger` whether a touch start reported two touches and some finger of
\* it is still down, `lastRelease` how the latest classified release was
\* classified, `lastSignal` the instant of the latest radar signal (0 = none)
\* and `waits` the clock steps taken.
HistTouch(h, name, args, w) ==
    LET t == h.touch
        wasEnabled == TouchControls.enabled
        isPress == wasEnabled /\ \/ name = "touchstart" /\ args[4] = 1
                                 \/ name = "mousedown"
        isTwo == wasEnabled /\ name = "touchstart" /\ args[4] = 2
        isRelease == wasEnabled /\ name \in {"touchend", "mouseup"}
        isMove == wasEnabled /\ name \in {"touchmove", "mousemove"} /\ args[3] \in t.pressed
        dx == args[1] - t.origin.x
        dy == args[2] - t.origin.y
        t1 == IF isPress
              THEN [t EXCEPT !.pressed = {args[3]}, !.origin = [x |-> args[1], y |-> args[2]],
                             !.pressAt = w.time, !.dragged = FALSE, !.held = FALSE]
              ELSE IF isTwo THEN [t EXCEPT !.pressed = {}, !.twoFinger = TRUE]
              ELSE IF isRelease
              THEN [t EXCEPT !.pressed = t.pressed \ {args[3]},
                             !.lastRelease =
                                 IF Has(w.out, "onTap")
                                 THEN [kind |-> "tap", at |-> w.time, x |-> args[1], y |-> args[2]]
                                 ELSE IF Has(w.out, "handleDoubleTap")
                                 THEN [kind |-> "double", at |-> w.time, x |-> args[1],
                                       y |-> args[2]]
                                 ELSE t.lastRelease]
              ELSE IF isMove /\ ~t.held /\ dx * dx + dy * dy > 20 * 20
              THEN [t EXCEPT !.dragged = TRUE]
              ELSE IF name = "holdTimeout" THEN [t EXCEPT !.held = TRUE]
              ELSE IF name \in {"touchcancel", "mouseleave"} THEN [t EXCEPT !.pressed = {}]
              ELSE IF name = "wait" THEN [t EXCEPT !.waits = t.waits + 1]
              ELSE t
        t2 == IF ~w.TouchControls.enabled THEN [t1 EXCEPT !.pressed = {}] ELSE t1
        t3 == IF Has(w.out, "onDoubleTap") THEN [t2 EXCEPT !.lastSignal = w.time] ELSE t2
        t4 == IF w.pointers.touches = {} THEN [t3 EXCEPT !.twoFinger = FALSE] ELSE t3
    IN [h EXCEPT !.touch = t4]

CommitGame(name, args, w) ==
    /\ Game' = w.Game
    /\ UI' = w.UI
    /\ TiltControls' = w.TiltControls
    /\ ShakeDetection' = w.ShakeDetection
    /\ TouchControls' = w.TouchControls
    /\ Levels' = w.Levels
    /\ chimneySystem' = w.chimneySystem
    /\ fogSystem' = w.fogSystem
    /\ timeouts' = w.timeouts
    /\ rafs' = w.rafs
    /\ now' = w.time
    /\ out' = w.out
    /\ ret' = w.ret
    /\ op' = name
    /\ arg' = args
    /\ hist' = HistTouch(HistGame(name, w), name, args, w)
    /\ pointers' = w.pointers
    /\ UNCHANGED DeviceCompat

\* Whether another level may be started within the bound.
MayStart == hist.starts < MaxStarts

\* Where rudolf.update can leave the nose, the radius it lights, and the
\* canvas points the player taps.
GameNoses ==
    { <<400, 240, noseRadius>>, <<240, 80, noseRadius>>, <<240, 80, noseBoostRadius>> }

\* The player taps the centre of the first chimney (in spawn order) that is
\* still outstanding, or a point where no chimney is.
GameTaps ==
    LET open == {i \in 1..Len(chimneySystem.chimneys) :
                    ~Terminal(chimneySystem.chimneys[i])}
    IN { <<chimneySystem.chimneys[i].x, chimneySystem.chimneys[i].y>> :
            i \in {j \in open : \A k \in open : j <= k} }
       \cup { <<600, 400>> }

\* The draws of Math.random() when the game spawns the chimneys of a level.
GameStreams == {SpreadDraws, CloseDraws}

\* play-btn (start screen)
handlePlayClick ==
    /\ UI.currentScreen = "start"
    /\ MayStart
    /\ \E tiltOutcome \in PermissionOutcomes, shakeOutcome \in PermissionOutcomes,
          stream \in GameStreams :
           CommitGame("handlePlayClick", <<>>,
                      handlePlayClickBody(W0, tiltOutcome, shakeOutcome, stream))

\* settings-btn (start screen)
onSettingsClick ==
    /\ UI.currentScreen = "start"
    /\ CommitGame("onSettingsClick", <<>>,
                  showScreen([W0 EXCEPT !.Game.state = "settings"], "settings"))

\* settings-back-btn (settings screen)
settingsBack ==
    /\ UI.currentScreen = "settings"
    /\ CommitGame("settingsBack", <<>>, showScreen(W0, "start"))

\* calibrate-btn (settings screen)
calibrate ==
    /\ UI.currentScreen = "settings"
    /\ MayStart
    /\ \E stream \in GameStreams :
           CommitGame("calibrate", <<>>, calibrateBody(W0, stream))

\* grant-permission-btn (permission screen)
requestPermissions ==
    /\ UI.currentScreen = "permission"
    /\ MayStart
    /\ \E tiltOutcome \in PermissionOutcomes, shakeOutcome \in PermissionOutcomes,
          stream \in GameStreams :
           CommitGame("requestPermissions", <<>>,
                      requestPermissionsBody(W0, tiltOutcome, shakeOutcome, stream))

\* The last calibration sample is taken.
calibrationTimeout ==
    \E t \in timeouts :
        /\ t.fn = "calibration" /\ t.at <= now
        /\ CommitGame("calibrationTimeout", <<>>,
                      calibrationComplete([W0 EXCEPT !.timeouts = timeouts \ {t}]))

\* The timer set when the calibration completes.
startLevelTimeout ==
    \E t \in timeouts, stream \in GameStreams :
        /\ t.fn = "startLevel" /\ t.at <= now
        /\ MayStart
        /\ CommitGame("startLevelTimeout", <<>>,
                      startLevelBody([W0 EXCEPT !.timeouts = timeouts \ {t}],
                                     Levels.currentLevel, stream))

\* Time passes until the next timer is due.
GameClock ==
    /\ timeouts # {}
    /\ \A t \in timeouts : t.at > now
    /\ CommitGame("tick", <<>>,
                  [W0 EXCEPT !.time = CHOOSE a \in {t.at : t \in timeouts} :
                                          \A t \in timeouts : a <= t.at])

\* The part of a level in which single frames are followed: its first
\* MaxPlay ms and its last LateTimer ms.
InWindow ==
    \/ Game.timer > Game.currentLevel.time * 1000 - MaxPlay
    \/ Game.timer <= LateTimer

Played == hist.starts <= MaxPlayed

\* One animation frame.
gameLoop ==
    /\ IF Game.isRunning /\ Game.state = "playing" THEN InWindow /\ Played
       ELSE hist.idle < MaxIdleFrames
    /\ \E id \in rafs, gap \in FrameGaps, nose \in GameNoses :
           CommitGame("gameLoop", <<gap>>, frame(W0, id, gap, <<nose[1], nose[2]>>, nose[3]))

\* The frames of the middle of a level, in a row.
gameLoopRun ==
    /\ Game.isRunning /\ Game.state = "playing" /\ ~InWindow /\ Played
    /\ rafs # {}
    /\ LET k == (Game.timer - LateTimer + maxDeltaTime - 1) \div maxDeltaTime
       IN CommitGame("gameLoopRun", <<k>>, RunFrames(W0, k))

\* TouchControls.onTap
handleTap ==
    /\ TouchControls.enabled
    /\ Played
    /\ \E p \in GameTaps : CommitGame("handleTap", p, handleTapBody(W0, p[1], p[2]))

\* TouchControls.onTwoFingerTap (two fingers, or the Escape key)
twoFingerTap ==
    /\ TouchControls.enabled
    /\ CommitGame("twoFingerTap", <<>>, pauseBody(W0))

\* Game.pause() through UI.onPause
pause == CommitGame("pause", <<>>, pauseBody(W0))

\* resume-btn
resume ==
    CommitGame("resume", <<>>, [resumeBody(W0) EXCEPT !.UI.pauseOverlay = "hidden"])

\* quit-btn (pause overlay)
quit ==
    /\ UI.pauseOverlay = "shown"
    /\ CommitGame("quit", <<>>,
                  showScreen([quitBody(W0) EXCEPT !.UI.pauseOverlay = "hidden"], "start"))

\* retry-btn (result screens)
onRetry ==
    /\ UI.currentScreen \in {"success", "failure"}
    /\ MayStart
    /\ \E stream \in GameStreams :
           CommitGame("onRetry", <<>>, startLevelBody(W0, Levels.currentLevel, stream))

\* next-level-btn (success screen)
onNextLevel ==
    /\ UI.currentScreen = "success"
    /\ MayStart
    /\ \E stream \in GameStreams :
           CommitGame("onNextLevel", <<>>,
                      startLevelBody(W0, Levels.currentLevel + 1, stream))

InitGame == \E device \in Devices : InitOn(device)

\* Game.render() on its own, as the loop calls it while it is running.
render ==
    /\ Game.isRunning
    /\ CommitGame("render", <<>>, renderBody(W0))

NextGame ==
    \/ handlePlayClick
    \/ onSettingsClick
    \/ settingsBack
    \/ calibrate
    \/ requestPermissions
    \/ calibrationTimeout
    \/ startLevelTimeout
    \/ GameClock
    \/ gameLoop
    \/ gameLoopRun
    \/ handleTap
    \/ twoFingerTap
    \/ pause
    \/ resume
    \/ quit
    \/ onRetry
    \/ onNextLevel

SpecGame == InitGame /\ [][NextGame]_vars

NextRender == NextGame \/ render

SpecRender == InitGame /\ [][NextRender]_vars

\* ------------------------------------------------- Game: properties
\* C8: once the count of outstanding targets reaches zero, the level-complete
\* signal fires (onAllDelivered, moving the session to success), on the
\* operation that makes the count zero.
C8_CompleteWhenNoneLeft ==
    [][ (Outstanding(chimneySystem) # {} /\ Outstanding(chimneySystem') = {})
        => (Has(out', "onAllDelivered") /\ Game.state' = "success") ]_vars

\* The states of the session as the specification lists them.
ListedStates ==
    {"menu", "permission", "calibrating", "playing", "paused", "success", "gameover"}

\* The calls that leave the session's objects as they are.
NoEffect ==
    UNCHANGED <<Game, UI, TiltControls, ShakeDetection, TouchControls, Levels,
                chimneySystem, fogSystem, timeouts, rafs>>

PauseGuard == (op' \in {"pause", "twoFingerTap"} /\ Game.state # "playing") => NoEffect

ResumeGuard == (op' = "resume" /\ Game.state # "paused") => NoEffect

WorldCalls ==
    { "TiltControls.getVelocity", "rudolf.update", "fogSystem.setNoseVisibility",
      "sleigh.update", "fogSystem.update", "chimneySystem.update",
      "powerUpSystem.update", "powerUpSystem.checkCollision" }

\* A frame of a running level in state playing brings the timer to <= 0.
TimeoutTick ==
    /\ op' = "gameLoop"
    /\ Game.isRunning /\ Game.state = "playing"
    /\ Game.timer' <= 0

\* C10: when a frame tick in state playing brings the level timer to <= 0, the
\* session is in gameover after that tick, the loop is no longer running, tilt,
\* shake and touch input are disabled, the failure screen reports found = the
\* number of delivered targets and total = the level's target count, and no
\* character, fog, target or power-up update ran after the timeout check.
C10_TimeoutTick ==
    [][ TimeoutTick =>
          /\ Game.state' = "gameover"
          /\ ~Game.isRunning'
          /\ ~TiltControls.enabled' /\ ~ShakeDetection.enabled' /\ ~TouchControls.enabled'
          /\ UI.currentScreen' = "failure"
          /\ UI.failure'.chimneysFound = chimneySystem.deliveredCount
          /\ UI.failure'.chimneysTotal = Game.currentLevel.chimneys
          /\ \A i \in 1..Len(out') : out'[i] \notin WorldCalls
          /\ UNCHANGED <<chimneySystem, fogSystem>>
          /\ Game.rudolf' = Game.rudolf ]_vars

\* The timer of level 1 ran out with 2 of its 5 chimneys delivered.
C10_Witness ==
    /\ op = "gameLoop"
    /\ Game.state = "gameover"
    /\ Game.timer <= 0
    /\ Len(chimneySystem.chimneys) = 5
    /\ chimneySystem.deliveredCount = 2
    /\ UI.failure.chimneysFound = 2
    /\ UI.failure.chimneysTotal = 5

\* ------------------------------------------------- Scoring at level completion
\* The timer values (ms) at which the frames of a level stop for the player
\* to tap, the most boosts counted, and the whole seconds the bonus is asked
\* for directly.
ScoreStops == {18100, 18000, 12000, 11100}
MaxBoosts == 1
BonusTimes == {0, 12, 19}

\* Game.activateBoost; `boosted` is what rudolf.activateBoost() answers.
activateBoostBody(w, boosted) ==
    IF ~boosted THEN w
    ELSE Log([w EXCEPT !.Game.boostsUsed = w.Game.boostsUsed + 1,
                       !.fogSystem = addBoostBurstBody(w.fogSystem, w.Game.rudolf.x,
                                                       w.Game.rudolf.y, noseBoostRadius,
                                                       w.time)],
             "UI.showBoostEffect")

\* ShakeDetection.onShake: a boost trigger was accepted.
onShake ==
    /\ ShakeDetection.enabled /\ Played
    /\ Game.boostsUsed < MaxBoosts
    /\ \E boosted \in BOOLEAN :
           CommitGame("onShake", <<boosted>>,
                      IF Game.state = "playing" THEN activateBoostBody(W0, boosted) ELSE W0)

\* Sleigh.handleCollision: the sleigh hit something.
Sleigh_handleCollision ==
    /\ Game.isRunning /\ Game.state = "playing" /\ Played
    /\ ~Game.sleigh.hasCollidedThisLevel
    /\ CommitGame("Sleigh_handleCollision", <<>>,
                  [W0 EXCEPT !.Game.sleigh.hasCollidedThisLevel = TRUE])

\* Where the player holds the nose while the level is played through: every
\* chimney of SpreadDraws is lit from there.
ScoreNose == <<240, 80, noseBoostRadius>>

\* The player steers the nose to ScoreNose on the next frame and holds the
\* device still until the timer shows the next of ScoreStops.
gameLoopTo ==
    /\ Game.isRunning /\ Game.state = "playing" /\ Played
    /\ rafs # {}
    /\ \E stop \in ScoreStops :
          /\ Game.timer > stop
          /\ \A other \in ScoreStops : Game.timer > other => other <= stop
          /\ LET k == (Game.timer - stop + maxDeltaTime - 1) \div maxDeltaTime
                 first == frame(W0, CHOOSE id \in rafs : TRUE, maxDeltaTime,
                                <<ScoreNose[1], ScoreNose[2]>>, ScoreNose[3])
             IN CommitGame("gameLoopTo", <<stop>>, RunFrames(first, k - 1))

\* Levels.calculateBonus called with the session at rest; ret.points is the
\* total it returns.
Levels_calculateBonus ==
    /\ Game.state = "menu"
    /\ \E timeLeft \in BonusTimes, allDelivered \in BOOLEAN, noBoosts \in BOOLEAN,
          sleighUntouched \in BOOLEAN, noRadar \in BOOLEAN :
           CommitGame("calculateBonus",
                      <<timeLeft, allDelivered, noBoosts, sleighUntouched, noRadar>>,
                      [W0 EXCEPT !.ret = [points |-> calculateBonus(timeLeft, allDelivered,
                                                                    noBoosts, sleighUntouched,
                                                                    noRadar),
                                          isPerfect |-> FALSE]])

InitScore == InitOn(Desktop)

NextScore ==
    \/ handlePlayClick
    \/ gameLoopTo
    \/ onShake
    \/ Sleigh_handleCollision
    \/ handleTap
    \/ onRetry
    \/ onNextLevel
    \/ Levels_calculateBonus

SpecScore == InitScore /\ [][NextScore]_vars

\* The whole seconds left on the timer (the timer rounded up).
SecondsLeft(timer) == CHOOSE s \in 0..(timer \div 1000 + 1) : (s - 1) * 1000 < timer /\ timer <= s * 1000

\* The tap that completes the level.
Completes == op' = "handleTap" /\ Game.state = "playing" /\ Game.state' = "success"

\* C11: at level completion the final score is the base points accumulated
\* during play (the last delivery's included) plus the bonus: 10 per whole
\* second remaining (the timer rounded up) + 500 for all targets delivered
\* + 200 if no boost was used + 300 if the sleigh never collided + 100 if the
\* radar was never used; calculateBonus returns that sum for any inputs, and
\* 1220 for 12 s with all four conditions true.
C11_FinalScore ==
    [][ /\ Completes =>
             /\ Game.score' = Game.score + ret'.points
                              + SecondsLeft(Game.timer) * 10 + 500
                              + (IF Game.boostsUsed = 0 THEN 200 ELSE 0)
                              + (IF ~Game.sleigh.hasCollidedThisLevel THEN 300 ELSE 0)
                              + (IF ~Game.radarUsed THEN 100 ELSE 0)
             /\ UI.success'.score = Game.score'
             /\ UI.success'.timeLeft = SecondsLeft(Game.timer)
        /\ op' = "calculateBonus" =>
             /\ ret'.points = arg'[1] * 10 + (IF arg'[2] THEN 500 ELSE 0)
                              + (IF arg'[3] THEN 200 ELSE 0) + (IF arg'[4] THEN 300 ELSE 0)
                              + (IF arg'[5] THEN 100 ELSE 0)
             /\ arg' = <<12, TRUE, TRUE, TRUE, TRUE>> => ret'.points = 1220 ]_vars

\* Level 1 was completed by five perfect taps with 11.1 s on the timer, no
\* boost, no radar and the sleigh untouched: 750 + 1220.
C11_Witness ==
    /\ op = "handleTap"
    /\ Game.state = "success"
    /\ Game.timer = 11100
    /\ Game.boostsUsed = 0 /\ ~Game.radarUsed /\ ~Game.sleigh.hasCollidedThisLevel
    /\ UI.success.timeLeft = 12
    /\ Game.score = 5 * perfectPoints + 1220

\* C12 as stated: recordScore awards 1 star for a completed level, 2 stars
\* when it is completed with more than 20% of the time limit remaining and 3
\* stars when it is completed with no boost, no radar and no sleigh collision;
\* level 1 (90 s) completed with 12 s remaining and a perfect run gives 3.
C12_Stars ==
    [][ Completes =>
          UI.success'.stars =
             IF /\ Game.boostsUsed = 0 /\ ~Game.radarUsed
                /\ ~Game.sleigh.hasCollidedThisLevel
             THEN 3
             ELSE IF SecondsLeft(Game.timer) * 5 > Game.currentLevel.time THEN 2
             ELSE 1 ]_vars

\* ------------------------------------------------- TouchControls
doubleTapThreshold == 300
holdThreshold == 500
doubleTapDistance == 50
radarCooldown == 10000
\* The distance beyond which a move cancels the hold.
holdJitter == 20

\* getDistance squared (the comparisons are made on the squares).
getDistance2(x1, y1, x2, y2) == (x2 - x1) * (x2 - x1) + (y2 - y1) * (y2 - y1)

canUseRadar(tc, time) == time - tc.lastRadar >= radarCooldown

\* ChimneySystem.getNearestDirection(...) # null
hasNearest(cs) == \E i \in 1..Len(cs.chimneys) : ~Terminal(cs.chimneys[i])

\* Game.activateRadar
activateRadarBody(w) ==
    IF ~canUseRadar(w.TouchControls, w.time) THEN w
    ELSE LET w1 == [w EXCEPT !.Game.radarUsed = TRUE]
         IN IF hasNearest(w1.chimneySystem)
            THEN Log(Log(w1, "UI.showDirectionIndicator"), "Haptics.pulse")
            ELSE Log(w1, "UI.showToast")

\* Mutant: the cooldown of handleDoubleTap is not applied.
handleDoubleTapBody_noCooldown(w) ==
    activateRadarBody(Log([Log(w, "handleDoubleTap") EXCEPT !.TouchControls.lastRadar = w.time],
                          "onDoubleTap"))

\* TouchControls.handleDoubleTap with onDoubleTap = Game.activateRadar.
handleDoubleTapBody(w) ==
    LET w1 == Log(w, "handleDoubleTap")
    IN IF w1.time - w1.TouchControls.lastRadar >= radarCooldown
       THEN activateRadarBody(Log([w1 EXCEPT !.TouchControls.lastRadar = w1.time],
                                  "onDoubleTap"))
       ELSE w1

\* activeTouches.set(id, entry) and activeTouches.delete(id)
MapSet(map, id, entry) == [i \in DOMAIN map \cup {id} |-> IF i = id THEN entry ELSE map[i]]

MapDelete(map, id) == [i \in DOMAIN map \ {id} |-> map[i]]

\* TouchControls.startInteraction
startInteractionBody(w, x, y, id) ==
    LET tc == w.TouchControls
        cleared == IF tc.holdTimer # 0 THEN clearTimeout(w.timeouts, "hold", tc.holdTimer)
                   ELSE w.timeouts
        handle == w.time + holdThreshold
    IN [w EXCEPT !.TouchControls.holdPosition = [x |-> x, y |-> y],
                 !.TouchControls.activeTouches =
                     MapSet(tc.activeTouches, id, [x |-> x, y |-> y, startTime |-> w.time]),
                 !.TouchControls.holdTimer = handle,
                 !.timeouts = cleared \cup {[fn |-> "hold", at |-> handle]}]

\* The callback of the hold timer (the game installs no onHoldStart; the log
\* records where it would be called).
holdTimeoutBody(w) == Log([w EXCEPT !.TouchControls.isHolding = TRUE], "onHoldStart")

\* Mutant: a release after the hold fired is classified like any other.
endInteractionBody_tapAfterHold(w, x, y, id) ==
    LET tc == w.TouchControls
        w1 == IF tc.holdTimer # 0
              THEN [w EXCEPT !.timeouts = clearTimeout(w.timeouts, "hold", tc.holdTimer),
                             !.TouchControls.holdTimer = 0]
              ELSE w
        w2 == IF tc.isHolding THEN Log([w1 EXCEPT !.TouchControls.isHolding = FALSE], "onHoldEnd")
              ELSE w1
        t == handleTapBody(Log(w2, "onTap"), x, y)
    IN [t EXCEPT !.TouchControls.lastTap = w.time,
                 !.TouchControls.lastTapPosition = [x |-> x, y |-> y],
                 !.TouchControls.activeTouches = MapDelete(t.TouchControls.activeTouches, id)]

\* TouchControls.endInteraction with onTap = Game.handleTap.
endInteractionBody(w, x, y, id) ==
    LET tc == w.TouchControls
        w1 == IF tc.holdTimer # 0
              THEN [w EXCEPT !.timeouts = clearTimeout(w.timeouts, "hold", tc.holdTimer),
                             !.TouchControls.holdTimer = 0]
              ELSE w
    IN IF tc.isHolding
       THEN Log([w1 EXCEPT !.TouchControls.isHolding = FALSE,
                           !.TouchControls.activeTouches = MapDelete(tc.activeTouches, id)],
                "onHoldEnd")
       ELSE IF /\ w.time - tc.lastTap < doubleTapThreshold
               /\ getDistance2(x, y, tc.lastTapPosition.x, tc.lastTapPosition.y)
                      < doubleTapDistance * doubleTapDistance
       THEN LET d == handleDoubleTapBody(w1)
            IN [d EXCEPT !.TouchControls.lastTap = 0,
                         !.TouchControls.activeTouches =
                             MapDelete(d.TouchControls.activeTouches, id)]
       ELSE LET t == handleTapBody(Log(w1, "onTap"), x, y)
            IN [t EXCEPT !.TouchControls.lastTap = w.time,
                         !.TouchControls.lastTapPosition = [x |-> x, y |-> y],
                         !.TouchControls.activeTouches =
                             MapDelete(t.TouchControls.activeTouches, id)]

\* TouchControls.moveInteraction
moveInteractionBody(w, x, y, id) ==
    LET tc == w.TouchControls
        far == getDistance2(x, y, tc.holdPosition.x, tc.holdPosition.y) > holdJitter * holdJitter
        w1 == IF tc.holdTimer # 0 /\ far
              THEN [w EXCEPT !.timeouts = clearTimeout(w.timeouts, "hold", tc.holdTimer),
                             !.TouchControls.holdTimer = 0]
              ELSE w
    IN IF id \in DOMAIN tc.activeTouches
       THEN [w1 EXCEPT !.TouchControls.activeTouches[id].x = x,
                       !.TouchControls.activeTouches[id].y = y]
       ELSE w1

\* handleTouchStart; `count` is event.touches.length.
handleTouchStartBody(w, x, y, id, count) ==
    IF ~w.TouchControls.enabled THEN w
    ELSE IF count = 2 THEN pauseBody(Log(w, "onTwoFingerTap"))
    ELSE IF count = 1 THEN startInteractionBody(w, x, y, id)
    ELSE w

handleTouchEndBody(w, x, y, id) ==
    IF ~w.TouchControls.enabled THEN w ELSE endInteractionBody(w, x, y, id)

handleTouchMoveBody(w, x, y, id, count) ==
    IF ~w.TouchControls.enabled THEN w
    ELSE IF count = 1 THEN moveInteractionBody(w, x, y, id)
    ELSE w

handleTouchCancelBody(w) == cancelInteractionBody(w)

\* The mouse events, for button 0; the mouse's press has the identifier 0
\* ('mouse' in the source).
handleMouseDownBody(w, x, y) ==
    IF ~w.TouchControls.enabled THEN w
    ELSE IF w.DeviceCompat.hasTouch THEN w
    ELSE startInteractionBody([w EXCEPT !.TouchControls.isMouseDown = TRUE], x, y, 0)

handleMouseUpBody(w, x, y) ==
    IF ~w.TouchControls.enabled \/ ~w.TouchControls.isMouseDown THEN w
    ELSE endInteractionBody([w EXCEPT !.TouchControls.isMouseDown = FALSE], x, y, 0)

handleMouseMoveBody(w, x, y) ==
    IF ~w.TouchControls.enabled \/ ~w.TouchControls.isMouseDown THEN w
    ELSE moveInteractionBody(w, x, y, 0)

handleMouseLeaveBody(w) ==
    IF w.TouchControls.isMouseDown
    THEN [cancelInteractionBody(w) EXCEPT !.TouchControls.isMouseDown = FALSE]
    ELSE w

\* ------------------------------------------------- TouchControls: events
\* The fingers, where a pointer goes down, where it is lifted (on the press
\* point and 50 px from it) and where it moves to (20 px and 30 px from the
\* press point), the clock steps and how many of them one behaviour takes.
Fingers == {1, 2}
PressPoints == { <<600, 400>> }
ReleasePoints == { <<600, 400>>, <<650, 400>> }
MovePoints == { <<620, 400>>, <<630, 400>> }
TouchGaps == {200, 300, 9900, 10000}
MaxWaits == 1

\* The canvas can be pressed: the game screen is shown and the pause overlay
\* does not cover it.
CanvasShown == UI.currentScreen = "game" /\ UI.pauseOverlay # "shown"

\* A finger of `ids` goes down.
touchstartOf(ids) ==
    /\ DeviceCompat.hasTouch
    /\ CanvasShown
    /\ \E id \in ids \ pointers.touches, p \in PressPoints :
          LET down == pointers.touches \cup {id}
              count == Cardinality(down)
          IN CommitGame("touchstart", <<p[1], p[2], id, count>>,
                        handleTouchStartBody([W0 EXCEPT !.pointers.touches = down],
                                             p[1], p[2], id, count))

\* One finger is used.
touchstart == touchstartOf({1})

\* Either finger goes down.
fingerDown == touchstartOf(Fingers)

touchend ==
    \E id \in pointers.touches, p \in ReleasePoints :
        CommitGame("touchend", <<p[1], p[2], id>>,
                   handleTouchEndBody([W0 EXCEPT !.pointers.touches = pointers.touches \ {id}],
                                      p[1], p[2], id))

touchmove ==
    \E id \in pointers.touches, p \in MovePoints :
        CommitGame("touchmove", <<p[1], p[2], id, Cardinality(pointers.touches)>>,
                   handleTouchMoveBody(W0, p[1], p[2], id, Cardinality(pointers.touches)))

\* The system takes the touches over: every finger's touch is cancelled.
touchcancel ==
    /\ pointers.touches # {}
    /\ CommitGame("touchcancel", <<>>,
                  handleTouchCancelBody([W0 EXCEPT !.pointers.touches = {}]))

mousedown ==
    /\ ~DeviceCompat.hasTouch
    /\ CanvasShown
    /\ pointers.mouse = "up"
    /\ \E p \in PressPoints :
          CommitGame("mousedown", <<p[1], p[2], 0>>,
                     handleMouseDownBody([W0 EXCEPT !.pointers.mouse = "down"], p[1], p[2]))

mouseup ==
    /\ pointers.mouse = "down"
    /\ \E p \in ReleasePoints :
          CommitGame("mouseup", <<p[1], p[2], 0>>,
                     handleMouseUpBody([W0 EXCEPT !.pointers.mouse = "up"], p[1], p[2]))

mousemove ==
    /\ ~DeviceCompat.hasTouch
    /\ pointers.mouse = "down"
    /\ \E p \in MovePoints :
          CommitGame("mousemove", <<p[1], p[2], 0>>, handleMouseMoveBody(W0, p[1], p[2]))

\* The pointer leaves the canvas with the button held (and comes back).
mouseleave ==
    /\ pointers.mouse = "down"
    /\ CommitGame("mouseleave", <<>>, handleMouseLeaveBody(W0))

\* The hold timer fires.
holdTimeout ==
    \E t \in timeouts :
        /\ t.fn = "hold" /\ t.at <= now
        /\ CommitGame("holdTimeout", <<>>,
                      holdTimeoutBody([W0 EXCEPT !.timeouts = timeouts \ {t}]))

\* Time passes: one of TouchGaps, or less when a timer is due before.
wait ==
    /\ hist.touch.waits < MaxWaits
    /\ \A t \in timeouts : t.at > now
    /\ \E gap \in TouchGaps :
          LET due == {t.at : t \in timeouts} \cup {now + gap}
          IN CommitGame("wait", <<gap>>,
                        [W0 EXCEPT !.time = CHOOSE a \in due : \A b \in due : a <= b])

\* play-btn, with the targets of SpreadDraws.
playTouch ==
    /\ UI.currentScreen = "start"
    /\ CommitGame("handlePlayClick", <<>>,
                  handlePlayClickBody(W0, "granted", "granted", SpreadDraws))

InitTouch == InitOn(Desktop) \/ InitOn(TouchLaptop)

NextTouch ==
    \/ playTouch
    \/ touchstart
    \/ touchend
    \/ touchmove
    \/ touchcancel
    \/ mousedown
    \/ mouseup
    \/ mousemove
    \/ mouseleave
    \/ holdTimeout
    \/ wait
    \/ pause
    \/ resume

SpecTouch == InitTouch /\ [][NextTouch]_vars

\* The touch screen used with two fingers.
InitFingers == InitOn(TouchLaptop)

NextFingers ==
    \/ playTouch
    \/ fingerDown
    \/ touchend
    \/ touchmove
    \/ touchcancel
    \/ holdTimeout
    \/ wait
    \/ pause
    \/ resume

SpecFingers == InitFingers /\ [][NextFingers]_vars

\* ------------------------------------------------- TouchControls: properties
\* The step delivers the release of a pointer.
IsRelease == op' \in {"touchend", "mouseup"}

\* The single-tap signal, the classification as a double tap, the double-tap
\* (radar) signal, the hold signals and the pause signal of the step.
EmitsTap == Has(out', "onTap")

ClassifiesDouble == Has(out', "handleDoubleTap")

EmitsDoubleTap == Has(out', "onDoubleTap")

EmitsHoldStart == Has(out', "onHoldStart")

EmitsHoldEnd == Has(out', "onHoldEnd")

EmitsPause == Has(out', "onTwoFingerTap")

\* C13: when a double tap is recognised during play and at least 10 s have
\* passed since the previous radar activation (or there was none), the radar
\* effect fires: the direction to the nearest outstanding target is shown (or
\* the 'all found' message) and the level is recorded as radar-used.
C13_RadarFires ==
    [][ ( /\ IsRelease
          /\ ClassifiesDouble
          /\ Game.state = "playing"
          /\ now' - TouchControls.lastRadar >= radarCooldown )
        => /\ Has(out', "UI.showDirectionIndicator") \/ Has(out', "UI.showToast")
           /\ Game.radarUsed' ]_vars

\* endInteraction classifies the release of the step: the handler runs (the
\* controls are enabled and, for the mouse, the button was recorded as down)
\* and no hold has fired.
ClassifiedRelease ==
    /\ IsRelease
    /\ TouchControls.enabled
    /\ op' = "mouseup" => TouchControls.isMouseDown
    /\ ~TouchControls.isHolding

\* The release of the step comes less than 300 ms after and less than 50 px
\* from the previous classified release, and that one was a single tap.
NearPreviousTap ==
    LET prev == hist.touch.lastRelease
    IN /\ prev.kind = "tap"
       /\ now' - prev.at < doubleTapThreshold
       /\ getDistance2(arg'[1], arg'[2], prev.x, prev.y) < doubleTapDistance * doubleTapDistance

\* C14: a release (with no hold fired) is classified as a double tap iff it
\* comes less than 300 ms after and less than 50 px from the previous
\* single-tap release, otherwise as a single tap; a release classified as a
\* double tap emits no single-tap signal, and it emits the double-tap (radar)
\* signal only if at least 10000 ms have passed since the last emitted radar
\* signal.
C14_Classification ==
    [][ ClassifiedRelease =>
          /\ ClassifiesDouble <=> NearPreviousTap
          /\ EmitsTap <=> ~NearPreviousTap
          /\ EmitsDoubleTap =>
                /\ ClassifiesDouble
                /\ hist.touch.lastSignal # 0 => now' - hist.touch.lastSignal >= radarCooldown ]_vars

\* A release 9900 ms after a radar signal is classified as a double tap and
\* emits neither signal.
C14_Witness ==
    /\ op = "touchend"
    /\ Has(out, "handleDoubleTap")
    /\ ~Has(out, "onDoubleTap")
    /\ ~Has(out, "onTap")
    /\ now - hist.touch.lastSignal = 9900

\* The step moves the pressed pointer more than 20 px from the press origin
\* before the hold has fired.
DragMove ==
    /\ op' \in {"touchmove", "mousemove"}
    /\ TouchControls.enabled
    /\ arg'[3] \in hist.touch.pressed
    /\ ~hist.touch.held
    /\ getDistance2(arg'[1], arg'[2], hist.touch.origin.x, hist.touch.origin.y)
           > holdJitter * holdJitter

\* The step releases a press that became a drag.
DragRelease ==
    /\ IsRelease
    /\ arg'[3] \in hist.touch.pressed
    /\ hist.touch.dragged

\* C15: if, after a press and before the hold timer fires, the pointer moves
\* more than 20 px from the press origin, the hold timer is cancelled (no
\* hold-start for that press) and the following release emits neither a tap
\* nor a double tap.
C15_Drag ==
    [][ /\ DragMove => \A t \in timeouts' : t.fn # "hold"
        /\ (EmitsHoldStart /\ hist.touch.pressed # {}) => ~hist.touch.dragged
        /\ DragRelease => ~EmitsTap /\ ~EmitsDoubleTap ]_vars

\* The step delivers a release for which no press is active.
UnmatchedRelease == IsRelease /\ arg'[3] \notin hist.touch.pressed

\* C16: a release for which there is no matching active press (cancelled by
\* touchcancel / mouseleave / disable, never recorded, or part of a two-finger
\* gesture) emits no tap and no double-tap signal.
C16_UnmatchedRelease == [][ UnmatchedRelease => ~EmitsTap /\ ~EmitsDoubleTap ]_vars

\* The step delivers a touch start that reports two touches.
TwoTouchStart == op' = "touchstart" /\ TouchControls.enabled /\ arg'[4] = 2

\* C17: a touch start that reports two simultaneous touches emits the pause
\* signal, and until the fingers of that gesture are lifted there is no tap,
\* no double tap and no hold-start.
C17_TwoFingers ==
    [][ /\ TwoTouchStart => EmitsPause
        /\ (TwoTouchStart \/ hist.touch.twoFinger)
             => ~EmitsTap /\ ~EmitsDoubleTap /\ ~EmitsHoldStart ]_vars

\* The hold timers that are pending.
HoldTimers(to) == {t \in to : t.fn = "hold"}

\* The step records a press.
IsPress ==
    /\ TouchControls.enabled
    /\ \/ op' = "touchstart" /\ arg'[4] = 1
       \/ op' = "mousedown"

\* C18: after a press, hold-start is emitted exactly once if 500 ms pass with
\* no release, cancel or move beyond 20 px (the timer of an active, unmoved
\* press stays pending until it fires at press + 500 ms, and it fires for no
\* other press); the release that follows a fired hold emits hold-end and no
\* tap; hold-end is never emitted without a hold-start for the same press; a
\* new press leaves exactly one hold timer pending, its own.
C18_Hold ==
    [][ /\ EmitsHoldStart =>
              /\ op' = "holdTimeout"
              /\ hist.touch.pressed # {} /\ ~hist.touch.dragged /\ ~hist.touch.held
              /\ now' = hist.touch.pressAt + holdThreshold
        /\ (hist.touch'.pressed # {} /\ ~hist.touch'.dragged /\ ~hist.touch'.held)
              => HoldTimers(timeouts') = {[fn |-> "hold", at |-> hist.touch'.pressAt + holdThreshold]}
        /\ op' = "holdTimeout" => EmitsHoldStart
        /\ (IsRelease /\ arg'[3] \in hist.touch.pressed /\ hist.touch.held)
              => EmitsHoldEnd /\ ~EmitsTap /\ ~ClassifiesDouble
        /\ EmitsHoldEnd => IsRelease /\ arg'[3] \in hist.touch.pressed /\ hist.touch.held
        /\ IsPress => HoldTimers(timeouts') = {[fn |-> "hold", at |-> now' + holdThreshold]}
        /\ Cardinality(HoldTimers(timeouts')) <= 1 ]_vars

\* A press was held for 500 ms, the hold fired, and the release ended it.
C18_Witness ==
    /\ op \in {"touchend", "mouseup"}
    /\ Has(out, "onHoldEnd")
    /\ ~Has(out, "onTap")
    /\ now = hist.touch.pressAt + holdThreshold
    /\ hist.touch.held

\* ------------------------------------------------- FogSystem
\* The value 1 - distance / radius that getVisibilityAt computes is kept as
\* the pair of the squared distance d2 and the radius; ZeroVisibility is 0.
ZeroVisibility == [d2 |-> 1, radius |-> 1]

\* p1 / q1 <= p2 / q2 for fractions of naturals, compared by their integer
\* parts and then by the inverses of their fractional parts (the products of
\* a cross-multiplication do not fit the integers of the checker).
RECURSIVE FractionAtMost(_, _, _, _)
FractionAtMost(p1, q1, p2, q2) ==
    IF p1 \div q1 # p2 \div q2 THEN p1 \div q1 < p2 \div q2
    ELSE IF p1 % q1 = 0 THEN TRUE
    ELSE IF p2 % q2 = 0 THEN FALSE
    ELSE FractionAtMost(q2, p2 % q2, q1, p1 % q1)

\* a >= b for two such values: sqrt(a.d2) / a.radius <= sqrt(b.d2) / b.radius
VisibilityAtLeast(a, b) ==
    FractionAtMost(a.d2, a.radius * a.radius, b.d2, b.radius * b.radius)

\* v > num / den
VisibilityAbove(v, num, den) == v.d2 * den * den < v.radius * v.radius * (den - num) * (den - num)

\* Math.max(a, b)
MaxVisibility(a, b) == IF VisibilityAtLeast(a, b) THEN a ELSE b

\* The loop of getVisibilityAt over holes[i..].
RECURSIVE VisibilityFrom(_, _, _, _, _)
VisibilityFrom(holes, i, x, y, maxVisibility) ==
    IF i > Len(holes) THEN maxVisibility
    ELSE LET hole == holes[i]
             dx == x - hole.x
             dy == y - hole.y
             d2 == dx * dx + dy * dy
         IN VisibilityFrom(holes, i + 1, x, y,
                           IF d2 < hole.radius * hole.radius
                           THEN MaxVisibility(maxVisibility, [d2 |-> d2, radius |-> hole.radius])
                           ELSE maxVisibility)

\* Mutant: the last covering hole wins instead of the best one.
getVisibilityAt_last(fog, x, y) ==
    LET holes == fog.visibilityHoles
        covering == {i \in 1..Len(holes) :
                        (x - holes[i].x) * (x - holes[i].x) + (y - holes[i].y) * (y - holes[i].y)
                            < holes[i].radius * holes[i].radius}
    IN IF covering = {} THEN ZeroVisibility
       ELSE LET i == CHOOSE k \in covering : \A j \in covering : j <= k
            IN [d2 |-> (x - holes[i].x) * (x - holes[i].x) + (y - holes[i].y) * (y - holes[i].y),
                radius |-> holes[i].radius]

getVisibilityAt(fog, x, y) == VisibilityFrom(fog.visibilityHoles, 1, x, y, ZeroVisibility)

\* The holes the fog keeps at most, the durations revealAll is called with,
\* the clock steps and how far the clock goes, the radius of a small burst,
\* and the points that are queried.
MaxHoles == 2
RevealDurations == {2000}
FogGaps == {2000}
MaxFogTime == 4000
BurstRadii == {50, noseBoostRadius}
FogPoints == { <<159, 80>>, <<160, 80>>, <<179, 80>>, <<180, 80>> }

NullQuery == [visible |-> FALSE, visibility |-> ZeroVisibility]

\* A call that changes the fog at the time `now`.
CommitFogCall(name, args, fog) ==
    /\ fogSystem' = fog
    /\ out' = <<>>
    /\ ret' = NullQuery
    /\ op' = name
    /\ arg' = args
    /\ hist' = HistFog(name, args)
    /\ UNCHANGED <<now, ShakeDetection, timeouts, chimneySystem, gameVars>>

FogSystem_setNoseVisibility ==
    \E p \in NosePoints, radius \in {noseRadius, noseBoostRadius} :
        CommitFogCall("setNoseVisibility", <<p[1], p[2], radius>>,
                      setNoseVisibilityBody(fogSystem, p[1], p[2], radius))

FogSystem_addBoostBurst ==
    /\ Len(fogSystem.visibilityHoles) < MaxHoles
    /\ \E p \in NosePoints, radius \in BurstRadii :
          CommitFogCall("addBoostBurst", <<p[1], p[2], radius>>,
                        addBoostBurstBody(fogSystem, p[1], p[2], radius, now))

FogSystem_revealAll ==
    /\ Len(fogSystem.visibilityHoles) < MaxHoles
    /\ \E duration \in RevealDurations :
          CommitFogCall("revealAll", <<duration>>, revealAllBody(fogSystem, duration, now))

FogSystem_update == CommitFogCall("update", <<>>, FogSystem_updateBody(fogSystem, now))

FogSystem_resetCall ==
    CommitFogCall("FogSystem_reset", <<>>, [fogSystem EXCEPT !.visibilityHoles = <<>>])

\* isPointVisible and getVisibilityAt are asked about one point.
FogSystem_query ==
    \E p \in FogPoints :
        /\ ret' = [visible |-> isPointVisible(fogSystem, p[1], p[2]),
                   visibility |-> getVisibilityAt(fogSystem, p[1], p[2])]
        /\ op' = "query"
        /\ arg' = p
        /\ out' = <<>>
        /\ UNCHANGED <<fogSystem, now, ShakeDetection, timeouts, chimneySystem, gameVars, hist>>

\* Date.now() advances.
FogClock ==
    \E gap \in FogGaps :
        /\ now + gap <= StartTime + MaxFogTime
        /\ now' = now + gap
        /\ op' = "tick"
        /\ arg' = <<gap>>
        /\ out' = <<>>
        /\ ret' = NullQuery
        /\ UNCHANGED <<fogSystem, ShakeDetection, timeouts, chimneySystem, gameVars, hist>>

InitFog == InitOn(Desktop)

NextFog ==
    \/ FogSystem_setNoseVisibility
    \/ FogSystem_addBoostBurst
    \/ FogSystem_revealAll
    \/ FogSystem_update
    \/ FogSystem_resetCall
    \/ FogSystem_query
    \/ FogClock

SpecFog == InitFog /\ [][NextFog]_vars

\* ------------------------------------------------- FogSystem: properties
Permanent(fog) == SelectSeq(fog.visibilityHoles, LAMBDA hole : ~hole.temporary)

Temporary(fog) == SelectSeq(fog.visibilityHoles, LAMBDA hole : hole.temporary)

\* C19: after any sequence of setNoseVisibility, addBoostBurst, revealAll,
\* update and reset, at most one non-temporary hole exists, and when one
\* exists its position and radius are those of the most recent
\* setNoseVisibility call; setNoseVisibility leaves the temporary holes as
\* they are.
C19_OneNoseHole ==
    [][ /\ Len(Permanent(fogSystem')) <= 1
        /\ Len(Permanent(fogSystem')) = 1 =>
              LET hole == Permanent(fogSystem')[1]
              IN /\ hist'.nose.set
                 /\ hole.x = hist'.nose.x /\ hole.y = hist'.nose.y
                 /\ hole.radius = hist'.nose.radius
        /\ op' = "setNoseVisibility" =>
              /\ Temporary(fogSystem') = Temporary(fogSystem)
              /\ Len(Permanent(fogSystem')) = 1 ]_vars

\* The nose hole, added after a burst, was moved to (240, 80) with the boost
\* radius by a later call; the burst is kept.
C19_Witness ==
    /\ op = "setNoseVisibility"
    /\ arg = <<240, 80, noseBoostRadius>>
    /\ Len(fogSystem.visibilityHoles) = 2
    /\ fogSystem.visibilityHoles[1].temporary
    /\ fogSystem.visibilityHoles[1].x = 80
    /\ fogSystem.visibilityHoles[2] = [x |-> 240, y |-> 80, radius |-> noseBoostRadius, temporary |-> FALSE, expiry |-> 0]

\* The holes whose radius covers the point.
Covering(fog, x, y) ==
    {i \in 1..Len(fog.visibilityHoles) :
        LET hole == fog.visibilityHoles[i]
        IN (x - hole.x) * (x - hole.x) + (y - hole.y) * (y - hole.y) < hole.radius * hole.radius}

\* 1 - distance / radius for hole i.
HoleVisibility(fog, i, x, y) ==
    LET hole == fog.visibilityHoles[i]
    IN [d2 |-> (x - hole.x) * (x - hole.x) + (y - hole.y) * (y - hole.y), radius |-> hole.radius]

\* 5 * distance < 4 * radius for some hole
WithinFourFifths(fog, x, y) ==
    \E i \in 1..Len(fog.visibilityHoles) :
        VisibilityAbove(HoleVisibility(fog, i, x, y), 1, 5)

\* C20: isPointVisible(x, y) is true iff some hole has distance < 0.8 x
\* radius; getVisibilityAt is the maximum over the holes of 1 - distance /
\* radius, 0 outside every radius; hence isPointVisible implies
\* getVisibilityAt > 0.2, and a point at least 0.8 x radius from every hole
\* that covers it is not visible for the gameplay although its render
\* visibility is positive.
C20_Visibility ==
    [][ op' = "query" =>
          LET x == arg'[1]
              y == arg'[2]
              covering == Covering(fogSystem, x, y)
              v == ret'.visibility
          IN /\ ret'.visible <=> WithinFourFifths(fogSystem, x, y)
             /\ covering = {} => v = ZeroVisibility
             /\ covering # {} =>
                   /\ \E i \in covering : v = HoleVisibility(fogSystem, i, x, y)
                   /\ \A i \in covering : VisibilityAtLeast(v, HoleVisibility(fogSystem, i, x, y))
             /\ ret'.visible => VisibilityAbove(v, 1, 5)
             /\ (covering # {} /\ ~WithinFourFifths(fogSystem, x, y))
                   => ~ret'.visible /\ VisibilityAbove(v, 0, 1) /\ ~VisibilityAbove(v, 1, 5) ]_vars

\* (160, 80) is exactly 0.8 x 100 from the nose hole at (80, 80) and inside
\* no other hole: it is not visible, its render visibility is 0.2.
C20_Witness ==
    /\ op = "query"
    /\ arg = <<160, 80>>
    /\ Len(fogSystem.visibilityHoles) = 2
    /\ fogSystem.visibilityHoles[1] = [x |-> 80, y |-> 80, radius |-> noseRadius, temporary |-> FALSE, expiry |-> 0]
    /\ ~ret.visible
    /\ ret.visibility = [d2 |-> 6400, radius |-> noseRadius]

\* ------------------------------------------------- ChimneySystem: spawning
\* C21: spawnChimneys(count) makes at most count x 20 placement attempts,
\* places at most count targets, no two placed targets are closer than the
\* minimum separation (150), and every placed target lies inside the
\* rectangle inset by the spawn margin.
C21_Spawn ==
    [][ op' = "spawnChimneys" =>
          LET count == arg'[1]
              placed == chimneySystem'.chimneys
          IN /\ Count(out', "isValidPosition") <= count * 20
             /\ Len(placed) <= count
             /\ ret'.points = Len(placed)
             /\ \A i, j \in 1..Len(placed) :
                   i # j => (placed[i].x - placed[j].x) * (placed[i].x - placed[j].x)
                            + (placed[i].y - placed[j].y) * (placed[i].y - placed[j].y)
                            >= 150 * 150
             /\ \A i \in 1..Len(placed) :
                   /\ spawnMargin <= placed[i].x /\ placed[i].x <= CanvasWidth - spawnMargin
                   /\ spawnMargin <= placed[i].y /\ placed[i].y <= CanvasHeight - spawnMargin ]_vars

\* Two targets were asked for and all 40 attempts were made, placing one.
C21_Witness ==
    /\ op = "spawnChimneys"
    /\ arg = <<2>>
    /\ Count(out, "isValidPosition") = 40
    /\ Len(chimneySystem.chimneys) = 1

\* ------------------------------------------------- Game: taps
\* The targets a tap at (x, y) can reach: visible, outstanding, and with the
\* tap inside the bounding box grown by 20 px.
Reachable(cs, x, y) ==
    {i \in 1..Len(cs.chimneys) :
        /\ cs.chimneys[i].visible
        /\ ~cs.chimneys[i].delivered /\ ~cs.chimneys[i].missed
        /\ InHitBox(cs.chimneys[i], x, y)}

\* C22: a single tap delivers at most one target, the first in spawn order
\* among the visible, outstanding targets whose bounding box grown by 20 px
\* contains the tap; if there is none, the tap changes no target state, no
\* counter and no score.
C22_OneTap ==
    [][ op' = "handleTap" =>
          LET hits == Reachable(chimneySystem, arg'[1], arg'[2])
          IN IF hits = {}
             THEN /\ chimneySystem' = chimneySystem
                  /\ Game'.score = Game.score
             ELSE LET first == CHOOSE i \in hits : \A j \in hits : i <= j
                  IN /\ chimneySystem'.chimneys =
                          [chimneySystem.chimneys EXCEPT ![first].delivered = TRUE]
                     /\ chimneySystem'.deliveredCount = chimneySystem.deliveredCount + 1
                     /\ chimneySystem'.missedCount = chimneySystem.missedCount ]_vars

\* A tap that delivered the second target of the level, and nothing else.
C22_Witness ==
    /\ op = "handleTap"
    /\ Len(chimneySystem.chimneys) >= 2
    /\ arg = <<chimneySystem.chimneys[2].x, chimneySystem.chimneys[2].y>>
    /\ chimneySystem.chimneys[2].delivered
    /\ chimneySystem.deliveredCount = 2
    /\ Has(out, "onDelivery")

\* A tap on a target the fog hides: nothing delivered, score as before.
C22_Hidden ==
    /\ op = "handleTap"
    /\ Len(chimneySystem.chimneys) >= 1
    /\ arg = <<chimneySystem.chimneys[1].x, chimneySystem.chimneys[1].y>>
    /\ ~chimneySystem.chimneys[1].visible
    /\ chimneySystem.deliveredCount = 0
    /\ Game.score = 0

\* ------------------------------------------------- Game: rendering
\* A frame of the running loop in which update() is skipped (the session is
\* not playing), so that render() is all it does besides its own bookkeeping.
RenderOnlyFrame == op' = "gameLoop" /\ Game.isRunning /\ Game.state # "playing"

\* C23: Game.render() changes no logical game state: score, timer, session
\* state, character and sleigh position, fog holes, target flags and counters
\* are after it what they were before it.
C23_RenderReadsOnly ==
    [][ /\ (op' = "render" =>
              UNCHANGED <<Game, UI, TiltControls, ShakeDetection, TouchControls, Levels,
                          chimneySystem, fogSystem, timeouts, rafs, pointers, now>>)
        /\ (RenderOnlyFrame =>
              /\ Game' = [Game EXCEPT !.deltaTime = Game'.deltaTime,
                                      !.lastTime = Game'.lastTime,
                                      !.animationFrameId = Game'.animationFrameId]
              /\ UNCHANGED <<UI, TiltControls, ShakeDetection, TouchControls, Levels,
                             chimneySystem, fogSystem, timeouts, pointers>>) ]_vars

\* render() has painted a level with an outstanding target and a hole in the fog.
C23_Witness ==
    /\ op = "render"
    /\ Has(out, "drawChimney")
    /\ Has(out, "fogCtx.arc")
    /\ Game.state = "playing"

\* A frame has painted the paused level.
C23_Paused ==
    /\ op = "gameLoop"
    /\ Game.state = "paused"
    /\ Has(out, "fogCtx.arc")

\* ------------------------------------------------- Game: input handlers
\* The callbacks that pointer events run (TouchControls.onTap from touchend
\* and mouseup, onTwoFingerTap from touchstart and the Escape key).
InputHandler(o) == o \in {"handleTap", "twoFingerTap"}

\* C24 as stated: sensor, pointer and key event handlers never directly
\* modify character, fog, target or score state (they only record the latest
\* sample, the boost trigger or a queued tap); every change of gameplay state
\* is made inside the frame tick.
C24_HandlersOnlyRecord ==
    [][ InputHandler(op') =>
          /\ chimneySystem' = chimneySystem
          /\ fogSystem' = fogSystem
          /\ Game'.score = Game.score
          /\ Game'.rudolf = Game.rudolf ]_vars

\* ------------------------------------------------- Game: pausing
\* The temporary holes of the fog that have not run out at the instant t.
Pending(fog, t) ==
    {i \in 1..Len(fog.visibilityHoles) :
        fog.visibilityHoles[i].temporary /\ fog.visibilityHoles[i].expiry > t}

\* How many animation frames (maxDeltaTime apart) run in a row during a pause.
PauseFrames == {10, 30}

\* The frames of a pause, in a row, while a boost burst is still in the fog.
pausedFrames ==
    /\ Game.isRunning /\ Game.state = "paused"
    /\ rafs # {}
    /\ Pending(fogSystem, now) # {}
    /\ \E k \in PauseFrames : CommitGame("pausedFrames", <<k>>, RunFrames(W0, k))

NextPause ==
    \/ handlePlayClick
    \/ gameLoopTo
    \/ onShake
    \/ pause
    \/ resume
    \/ pausedFrames

SpecPause == InitScore /\ [][NextPause]_vars

\* C25 as stated, for the temporary fog holes: while the session is paused no
\* deadline advances, so the remaining duration of every temporary hole is,
\* after each step taken during the pause and at the resume, what it was
\* before it.
C25_DeadlinesFrozen ==
    [][ (Game.state = "paused" /\ Game'.state \in {"paused", "playing"}) =>
          \A i \in Pending(fogSystem, now) :
              /\ i <= Len(fogSystem'.visibilityHoles)
              /\ fogSystem'.visibilityHoles[i].expiry - now'
                 = fogSystem.visibilityHoles[i].expiry - now ]_vars

\* C26: while the session is paused the level timer does not decrease (so the
\* session cannot time out), resume restarts the frame clock at the instant
\* of the resume, and a tick subtracts the time since the frame clock's last
\* instant, never more than 100 ms.
C26_TimerFrozen ==
    [][ /\ (Game.state = "paused" =>
               /\ Game'.timer = Game.timer
               /\ Game'.state # "gameover")
        /\ (op' = "resume" /\ Game.state = "paused" =>
               /\ Game'.state = "playing"
               /\ Game'.lastTime = now')
        /\ (op' = "gameLoop" /\ Game.isRunning /\ Game.state = "playing" =>
               /\ Game.timer - Game'.timer = Min(now' - Game.lastTime, 100)
               /\ Game.timer - Game'.timer <= 100) ]_vars

\* The first tick after a resume, 50 ms after it: the level was paused with
\* 100 ms left, a frame ran during the pause, and 50 ms are left.
C26_Witness ==
    /\ op = "gameLoop" /\ arg = <<50>>
    /\ Game.state = "playing"
    /\ hist.idle = 1
    /\ Game.timer = 50

\* The frame that ran during the pause, 250 ms after the one before it.
C26_PausedFrame ==
    /\ op = "gameLoop" /\ arg = <<250>>
    /\ Game.state = "paused"
    /\ Game.timer = 100

\* ------------------------------------------------- TiltControls
deadzone == 3
\* smoothing (0.15), in hundredths.
smoothing == 15
\* Angles are whole multiples of 1 / AngleUnit degree, so that the mean of 30
\* whole-degree samples, and the mean of 30 samples taken relative to such a
\* mean, are exact; a quotient that is not exact is rounded towards zero.
AngleUnit == 900

Quotient(a, b) == IF a >= 0 THEN a \div b ELSE -((-a) \div b)

Clamp(v) == Max(-90 * AngleUnit, Min(90 * AngleUnit, v))

RECURSIVE SumOf(_, _)
SumOf(samples, field) ==
    IF samples = <<>> THEN 0
    ELSE samples[1][field] + SumOf(Tail(samples), field)

\* One axis of handleOrientation: the offset, the clamp and the dead zone.
Adjusted(raw, offset, isCalibrated) ==
    LET shifted == raw * AngleUnit - (IF isCalibrated THEN offset ELSE 0)
        clamped == Clamp(shifted)
    IN IF Abs(clamped) < deadzone * AngleUnit THEN 0 ELSE clamped

\* handleOrientation(event) with event.gamma = g and event.beta = b degrees,
\* the screen in its natural orientation (angle 0) and onUpdate not set.
handleOrientationBody(w, g, b) ==
    IF ~w.TiltControls.enabled THEN w
    ELSE LET t == w.TiltControls
             gamma == Adjusted(g, t.calibration.gamma, t.isCalibrated)
             beta == Adjusted(b, t.calibration.beta, t.isCalibrated)
         IN [w EXCEPT !.TiltControls.gamma = gamma,
                      !.TiltControls.beta = beta,
                      !.TiltControls.smoothedGamma =
                          @ + Quotient((gamma - @) * smoothing, 100),
                      !.TiltControls.smoothedBeta =
                          @ + Quotient((beta - @) * smoothing, 100)]

\* takeSample of startCalibration.
takeSampleBody(w) ==
    LET t == w.TiltControls
        samples == Append(t.samples, [gamma |-> t.gamma, beta |-> t.beta])
        w1 == Log([w EXCEPT !.TiltControls.samples = samples], "onProgress")
        validSamples == SelectSeq(samples, LAMBDA sample :
                                     /\ Abs(sample.gamma) < 80 * AngleUnit
                                     /\ Abs(sample.beta) < 80 * AngleUnit)
        w2 == IF Len(validSamples) > 0
              THEN [w1 EXCEPT !.TiltControls.calibration =
                        [gamma |-> Quotient(SumOf(validSamples, "gamma"), Len(validSamples)),
                         beta |-> Quotient(SumOf(validSamples, "beta"), Len(validSamples))]]
              ELSE w1
    IN IF Len(samples) < sampleCount
       THEN [w1 EXCEPT !.timeouts = @ \cup {[fn |-> "takeSample",
                                              at |-> w.time + sampleInterval]}]
       ELSE Log([w2 EXCEPT !.TiltControls.isCalibrated = TRUE,
                           !.TiltControls.smoothedGamma = 0,
                           !.TiltControls.smoothedBeta = 0,
                           !.TiltControls.samples = <<>>],
                "onComplete")

\* TiltControls.startCalibration(onProgress, onComplete)
startCalibrationBody(w) ==
    IF w.TiltControls.useFallback
    THEN Log(Log([w EXCEPT !.TiltControls.isCalibrated = TRUE], "onProgress"), "onComplete")
    ELSE takeSampleBody([w EXCEPT !.TiltControls.samples = <<>>,
                                  !.TiltControls.enabled = TRUE])

\* History (no handler reads it): `raws` the orientations the sensor has
\* reported, `seen` whether a report was handled (the controls were enabled),
\* `fresh` whether one had been handled when the calibration under way (or
\* the last one) began, `calibrating` whether a calibration is under way,
\* `cancelled` whether disable() was called during it, and the numbers of
\* calibrations begun and of sensor reports.
HistTilt(name, args, w) ==
    LET h == hist.tilt
    IN [hist EXCEPT !.tilt =
         IF name = "handleOrientation"
         THEN [h EXCEPT !.raws = @ \cup {args}, !.events = @ + 1,
                        !.seen = @ \/ TiltControls.enabled]
         ELSE IF name = "TiltControls_startCalibration"
         THEN [h EXCEPT !.calibrating = TRUE, !.cancelled = FALSE, !.fresh = h.seen,
                        !.calibrations = @ + 1]
         ELSE IF name = "TiltControls_disable"
         THEN [h EXCEPT !.cancelled = @ \/ h.calibrating]
         ELSE IF name = "takeSample"
         THEN [h EXCEPT !.calibrating = ~Has(w.out, "onComplete")]
         ELSE h]

CommitTilt(name, args, w) ==
    /\ TiltControls' = w.TiltControls
    /\ timeouts' = w.timeouts
    /\ now' = w.time
    /\ out' = w.out
    /\ ret' = NullResult
    /\ op' = name
    /\ arg' = args
    /\ hist' = HistTilt(name, args, w)
    /\ UNCHANGED <<ShakeDetection, chimneySystem, fogSystem, Game, UI, TouchControls,
                   Levels, DeviceCompat, rafs, pointers>>

\* The orientations the sensor reports (degrees), the sensor reports and the
\* calibrations of one behaviour.
RawOrientations == { <<10, 0>>, <<-40, 85>> }
MaxTiltEvents == 2
MaxCalibrations == 2

TiltControls_enable == CommitTilt("TiltControls_enable", <<>>, [W0 EXCEPT !.TiltControls.enabled = TRUE])

TiltControls_disable == CommitTilt("TiltControls_disable", <<>>, [W0 EXCEPT !.TiltControls.enabled = FALSE])

\* A deviceorientation event.
handleOrientation ==
    /\ hist.tilt.events < MaxTiltEvents
    /\ \E raw \in RawOrientations :
           CommitTilt("handleOrientation", raw, handleOrientationBody(W0, raw[1], raw[2]))

\* One calibration at a time is followed.
TiltControls_startCalibration ==
    /\ ~hist.tilt.calibrating
    /\ hist.tilt.calibrations < MaxCalibrations
    /\ CommitTilt("TiltControls_startCalibration", <<>>, startCalibrationBody(W0))

\* The timer of takeSample fires when it is due.
takeSample ==
    \E t \in timeouts :
        /\ t.fn = "takeSample"
        /\ CommitTilt("takeSample", <<>>,
                      takeSampleBody([W0 EXCEPT !.timeouts = timeouts \ {t},
                                                !.time = Max(now, t.at)]))

NextTilt ==
    \/ TiltControls_enable
    \/ TiltControls_disable
    \/ handleOrientation
    \/ TiltControls_startCalibration
    \/ takeSample

SpecTilt == Init /\ [][NextTilt]_vars

\* C27 as stated: if TiltControls.disable happens after startCalibration
\* began and before all 30 samples were taken, the calibration is cancelled
\* without partial state: isCalibrated and the offset stay as they were and
\* the completion callback is not invoked.
C27_DisableCancels ==
    [][ hist.tilt.cancelled =>
          /\ TiltControls'.isCalibrated = TiltControls.isCalibrated
          /\ TiltControls'.calibration = TiltControls.calibration
          /\ ~Has(out', "onComplete") ]_vars

\* The sensor has reported one orientation only, (g, b) with |g|, |b| < 80,
\* and a report had been handled when the calibration began.
Steady(h, g, b) ==
    /\ h.raws = {<<g, b>>}
    /\ h.fresh
    /\ Abs(g) < 80 /\ Abs(b) < 80

\* C28 as stated: after startCalibration has run over its 30 samples with a
\* steady raw orientation (g, b), |g|, |b| < 80, the stored offset equals
\* (g, b), and a later sample equal to (g, b) gives the post-offset
\* orientation (0, 0) and leaves the smoothed output at (0, 0).
C28_OffsetIsSteadyValue ==
    [][ \A raw \in RawOrientations :
          /\ ( /\ op' = "takeSample" /\ Has(out', "onComplete")
               /\ Steady(hist'.tilt, raw[1], raw[2]) )
             => TiltControls'.calibration = [gamma |-> raw[1] * AngleUnit,
                                             beta |-> raw[2] * AngleUnit]
          /\ ( /\ op' = "handleOrientation" /\ arg' = raw
               /\ TiltControls.enabled /\ TiltControls.isCalibrated
               /\ ~hist.tilt.calibrating
               /\ Steady(hist'.tilt, raw[1], raw[2]) )
             => /\ TiltControls'.gamma = 0 /\ TiltControls'.beta = 0
                /\ TiltControls'.smoothedGamma = 0 /\ TiltControls'.smoothedBeta = 0 ]_vars

\* ------------------------------------------------- Game: from the menu to play
NextPlay ==
    \/ handlePlayClick
    \/ onSettingsClick
    \/ settingsBack
    \/ calibrate
    \/ requestPermissions
    \/ calibrationTimeout
    \/ startLevelTimeout
    \/ GameClock
    \/ pause
    \/ quit

\* The timer that starts the level is due (where startLevelTimeout is enabled).
StartDue == MayStart /\ \E t \in timeouts : t.fn = "startLevel" /\ t.at <= now

\* Weak fairness of startLevelTimeout, with its enabling condition written out.
FairStart == []<>(~StartDue) \/ []<><<op' = "startLevelTimeout">>_vars

\* The host runs the timers that are due and lets time pass; the player, shown
\* the permission screen, presses its one button.
SpecPlay ==
    /\ InitGame
    /\ [][NextPlay]_vars
    /\ WF_vars(requestPermissions)
    /\ WF_vars(calibrationTimeout)
    /\ WF_vars(GameClock)
    /\ FairStart

\* The sensors are not used: the device has none, or a permission was denied
\* or its request threw.
Fallback(tilt, shake, game) == tilt.useFallback \/ shake.useFallback \/ game.usingFallbackControls

C29_Calibrated ==
    /\ op = "startLevelTimeout"
    /\ Game.state = "playing"
    /\ TiltControls.isCalibrated /\ ~Game.usingFallbackControls

\* ------------------------------------------------- Levels: progress
\* The levels recordScore is called for directly (the last two configured;
\* the first ones are played) and the score it is given.
RecordLevels == {5, 6}
RecordedScore == 100

\* Levels.recordScore called with the session at rest.
Levels_recordScore ==
    /\ Game.state = "menu"
    /\ \E levelNumber \in RecordLevels, allDelivered \in BOOLEAN :
           CommitGame("recordScore", <<levelNumber, allDelivered>>,
                      [W0 EXCEPT !.Levels = recordScore(Levels, levelNumber, RecordedScore, 0,
                                                        allDelivered, FALSE, FALSE, FALSE).levels])

\* Levels.save called with the session at rest.
Levels_save ==
    /\ Game.state = "menu"
    /\ CommitGame("save", <<>>, [W0 EXCEPT !.Levels = save(Levels)])

\* Levels.load called with the session at rest.
Levels_load ==
    /\ Game.state = "menu"
    /\ CommitGame("load", <<>>, [W0 EXCEPT !.Levels = load(Levels)])

\* From now on localStorage.setItem throws (the quota is used up).
quotaExceeded ==
    /\ Game.state = "menu"
    /\ ~Levels.storageFull
    /\ CommitGame("quotaExceeded", <<>>, [W0 EXCEPT !.Levels.storageFull = TRUE])

\* After the last of ScoreStops: the frames of the level in a row until its
\* timer has run out.
gameLoopOut ==
    /\ Game.isRunning /\ Game.state = "playing" /\ Played
    /\ rafs # {}
    /\ \A stop \in ScoreStops : Game.timer <= stop
    /\ LET k == (Game.timer + maxDeltaTime - 1) \div maxDeltaTime
       IN CommitGame("gameLoopOut", <<k>>, RunFrames(W0, k))

\* The page is loaded again: every object is as its script creates it and
\* Levels.load() reads what localStorage kept. The count of levels started
\* goes on across the reload.
pageLoad ==
    /\ now' = StartTime
    /\ ShakeDetection' = ShakeInit
    /\ timeouts' = {}
    /\ chimneySystem' = ChimneyInit
    /\ fogSystem' = FogInit
    /\ Game' = GameInit(DeviceCompat)
    /\ UI' = UIInit
    /\ TiltControls' = TiltInit
    /\ TouchControls' = TouchInit
    /\ Levels' = load([LevelsInit EXCEPT !.stored = Levels.stored,
                                         !.storageFull = Levels.storageFull])
    /\ rafs' = {}
    /\ pointers' = PointersInit
    /\ op' = "pageLoad"
    /\ arg' = <<>>
    /\ out' = <<>>
    /\ ret' = NullResult
    /\ hist' = [HistInit EXCEPT !.starts = hist.starts]
    /\ UNCHANGED DeviceCompat

NextLevels ==
    \/ handlePlayClick
    \/ gameLoopTo
    \/ gameLoopOut
    \/ handleTap
    \/ onRetry
    \/ onNextLevel
    \/ Levels_recordScore
    \/ Levels_save
    \/ Levels_load
    \/ quotaExceeded
    \/ pageLoad

SpecLevels == InitScore /\ [][NextLevels]_vars

\* The levels a fresh Levels object finds unlocked after load().
Persisted(levels) == load([LevelsInit EXCEPT !.stored = levels.stored]).unlocked

\* This step completes level n with all delivered: the tap that delivers the
\* last chimney of level n, or recordScore(n, ..., allDelivered = true, ...).
PassedLevel(n) ==
    \/ Completes /\ Levels.currentLevel = n
    \/ op' = "recordScore" /\ arg' = <<n, TRUE>>

\* The levels that have a config, and the level after n if it has one.
Configured == 1..Len(LevelConfigs)
NextOf(n) == {n + 1} \cap Configured

\* What a step does to the unlocked flags and to their stored copy; `kept`
\* says whether the step is one whose writes localStorage takes.
Progress(kept) ==
    /\ \A n \in Configured :
          PassedLevel(n) =>
             /\ NextOf(n) \subseteq Levels'.unlocked
             /\ isUnlocked(Levels, n) => isUnlocked(Levels', n + 1)
             /\ kept => NextOf(n) \subseteq Persisted(Levels')
    /\ kept => Levels.unlocked \subseteq Levels'.unlocked
    /\ kept => Persisted(Levels) \subseteq Persisted(Levels')
    /\ kept /\ Levels'.unlocked # Levels.unlocked =>
          \E n \in Configured : PassedLevel(n) /\ Levels'.unlocked = Levels.unlocked \cup NextOf(n)
    /\ Game.state' = "gameover" /\ Game.state = "playing" =>
          Levels'.unlocked = Levels.unlocked /\ Levels'.stored = Levels.stored
    /\ op' = "recordScore" /\ ~arg'[2] => Levels'.unlocked = Levels.unlocked

C30_Failed ==
    /\ op = "gameLoopOut"
    /\ Game.state = "gameover"
    /\ Levels.unlocked = {1}
    /\ Len(Levels.stored) = 0

\* ------------------------------------------------- Levels: the stored item
\* The levels unlockLevel is called for directly.
UnlockLevels == {2, 6, 7}

\* Levels.unlockLevel called with the session at rest.
Levels_unlockLevel ==
    /\ Game.state = "menu"
    /\ \E levelNumber \in UnlockLevels :
           CommitGame("unlockLevel", <<levelNumber>>,
                      [W0 EXCEPT !.Levels = unlockLevel(Levels, levelNumber)])

NextProgress ==
    \/ Levels_recordScore
    \/ Levels_unlockLevel
    \/ Levels_save
    \/ Levels_load
    \/ quotaExceeded
    \/ pageLoad

SpecProgress == InitScore /\ [][NextProgress]_vars

\* The progress of two Levels objects is equal.
SameProgress(a, b) ==
    /\ a.highScores = b.highScores
    /\ a.starsEarned = b.starsEarned
    /\ a.unlocked = b.unlocked

\* save() on `levels`, then load() on a Levels object just created.
Reloaded(levels) == load([LevelsInit EXCEPT !.stored = save(levels).stored])

\* What holds of the stored item after a step; `kept` says whether the step
\* is one whose writes localStorage takes.
RoundTrip(kept) ==
    /\ kept => SameProgress(Reloaded(Levels'), Levels')
    /\ kept /\ op' = "pageLoad" /\ op = "save" => SameProgress(Levels', Levels)

DamagedItems ==
    { [ form |-> "garbage", highScores |-> LevelsInit.highScores,
        starsEarned |-> LevelsInit.starsEarned, unlocked |-> <<>> ],
      [ form |-> "noList", highScores |-> [LevelsInit.highScores EXCEPT ![1] = RecordedScore],
        starsEarned |-> [LevelsInit.starsEarned EXCEPT ![1] = 1], unlocked |-> <<>> ],
      [ form |-> "object", highScores |-> LevelsInit.highScores,
        starsEarned |-> LevelsInit.starsEarned,
        unlocked |-> [n \in 1..Len(LevelConfigs) |-> FALSE] ] }

\* The item under 'rudolf_game_progress' is replaced from outside the game.
damageItem ==
    /\ Game.state = "menu"
    /\ \E item \in DamagedItems :
           CommitGame("damageItem", <<item.form>>, [W0 EXCEPT !.Levels.stored = <<item>>])

NextStored == NextProgress \/ damageItem

SpecStored == InitScore /\ [][NextStored]_vars

\* Nothing is stored, or what is stored is one of DamagedItems.
Damaged(levels) == Len(levels.stored) = 0 \/ levels.stored[1] \in DamagedItems

\* C32: load() on an absent or damaged item leaves the defaults in a Levels
\* object just created (level 1 unlocked, the others locked, no scores, no
\* stars), and leaves the progress of an object in use as it was.
C32_LoadDefaults ==
    [][ Damaged(Levels) =>
          /\ op' = "pageLoad" => SameProgress(Levels', LevelsInit)
          /\ op' = "load" => SameProgress(Levels', Levels) ]_vars

\* The page was loaded with a damaged item stored and level 1 is locked.
C32_Level1Locked ==
    /\ op = "pageLoad"
    /\ Damaged(Levels)
    /\ 1 \notin Levels.unlocked

\* ------------------------------------------------- Levels: generated levels
\* The highest level number asked for.
MaxLevelNumber == 14

\* Levels.getConfig called with the session at rest; ret is the config.
Levels_getConfig ==
    /\ Game.state = "menu"
    /\ \E levelNumber \in 1..MaxLevelNumber :
           CommitGame("getConfig", <<levelNumber>>, [W0 EXCEPT !.ret = getConfig(levelNumber)])

\* Levels.setLevel called with the session at rest.
Levels_setLevel ==
    /\ Game.state = "menu"
    /\ \E levelNumber \in {0, 1, Len(LevelConfigs)} :
           CommitGame("setLevel", <<levelNumber>>,
                      [W0 EXCEPT !.Levels.currentLevel = Max(1, levelNumber)])

\* Levels.nextLevel called with the session at rest; ret is the config.
Levels_nextLevel ==
    /\ Game.state = "menu"
    /\ Levels.currentLevel < MaxLevelNumber
    /\ CommitGame("nextLevel", <<>>,
                  [W0 EXCEPT !.Levels.currentLevel = Levels.currentLevel + 1,
                             !.ret = getConfig(Levels.currentLevel + 1)])

NextConfig == Levels_getConfig \/ Levels_setLevel \/ Levels_nextLevel

SpecConfig == InitScore /\ [][NextConfig]_vars

\* C33: the config returned for a level beyond the authored ones has at least
\* the chimneys of the last authored level and of the level before it, at most
\* the time of either, not under 45 s, and at most 8 powerups.
C33_Scaled ==
    op \in {"getConfig", "nextLevel"} /\ ret.id > Len(LevelConfigs) =>
        LET last == getConfig(Len(LevelConfigs))
            before == getConfig(ret.id - 1)
        IN /\ ret.chimneys >= last.chimneys /\ ret.chimneys >= before.chimneys
           /\ ret.time <= last.time /\ ret.time <= before.time
           /\ ret.time >= 45
           /\ ret.powerups <= 8

\* Level 7 is generated with fewer chimneys than level 6 has.
C33_Level7 ==
    /\ op = "nextLevel"
    /\ Levels.currentLevel = 7
    /\ ret.chimneys < LevelConfigs[6].chimneys

\* ------------------------------------------------- Game: boosts
boostDuration == 3000
\* The points of a carrot, and the carrots collected in one level.
carrotPoints == 25
MaxCarrots == 1
MaxMotion == 1

\* Rudolf.activateBoost (what it returns is Boostable of the state before).
Boostable(w) == ~(w.Game.rudolf.isBoosting \/ w.Game.rudolf.isOverheated)

Rudolf_activateBoost(w) ==
    IF ~Boostable(w) THEN w
    ELSE LET cleared == IF w.Game.rudolf.boostTimer # 0
                        THEN clearTimeout(w.timeouts, "boost", w.Game.rudolf.boostTimer)
                        ELSE w.timeouts
         IN [w EXCEPT !.Game.rudolf.isBoosting = TRUE,
                      !.Game.rudolf.boostTimer = w.time + boostDuration,
                      !.timeouts = cleared \cup {[fn |-> "boost", at |-> w.time + boostDuration]}]

\* Game.activateBoost
Game_activateBoost(w) == activateBoostBody(Rudolf_activateBoost(w), Boostable(w))

\* The callbacks setupControlCallbacks gives ShakeDetection, run for the
\* notifications of one handler in the order they were made.
RECURSIVE Notify(_, _)
Notify(w, emitted) ==
    IF emitted = <<>> THEN w
    ELSE LET e == Head(emitted)
             w0 == Log(w, e)
             w1 == CASE e = "onShake" ->
                          IF w0.Game.state = "playing" THEN Game_activateBoost(w0) ELSE w0
                    [] e = "onOverheat" ->
                          Log([w0 EXCEPT !.Game.rudolf.isOverheated = TRUE], "UI.showToast")
                    [] e = "onCooldownEnd" -> [w0 EXCEPT !.Game.rudolf.isOverheated = FALSE]
                    [] e = "onChargeChange" -> Log(w0, "UI.updateBoostCharges")
                    [] OTHER -> w0
         IN Notify(w1, Tail(emitted))

\* The ShakeDetection machine of a world, and the world after a handler of
\* ShakeDetection left the machine m.
Machine(w) == [sd |-> w.ShakeDetection, to |-> w.timeouts, out |-> <<>>]

Shaken(w, m) == Notify([w EXCEPT !.ShakeDetection = m.sd, !.timeouts = m.to], m.out)

\* boost-button (click or touchstart)
boostButton ==
    CommitGame("boostButton", <<>>,
               IF Game.state = "playing" THEN Shaken(W0, manualTriggerBody(Machine(W0)))
               ELSE W0)

\* keydown of the space bar (bound with the keyboard fallback)
spaceKey ==
    /\ ShakeDetection.isInitialized /\ ShakeDetection.useFallback
    /\ CommitGame("spaceKey", <<>>,
                  IF ShakeDetection.enabled THEN Shaken(W0, manualTriggerBody(Machine(W0)))
                  ELSE W0)

\* devicemotion (bound when the sensor is used); MaxMotion samples are
\* followed after a reset.
devicemotion ==
    /\ ShakeDetection.isInitialized /\ ~ShakeDetection.useFallback
    /\ Len(ShakeDetection.accelerationBuffer) < MaxMotion
    /\ \E event \in MotionEvents :
           CommitGame("devicemotion", <<event.isNull, event.x>>,
                      Shaken(W0, handleMotionBody(Machine(W0), event)))

\* powerUpSystem.onCollect for a carrot, during update().
collectCarrot ==
    /\ Game.isRunning /\ Game.state = "playing"
    /\ Game.score < carrotPoints * MaxCarrots
    /\ CommitGame("collectCarrot", <<>>,
                  Log(Shaken(Log([W0 EXCEPT !.Game.score = Game.score + carrotPoints],
                                 "UI.updateScore"),
                             addChargeBody(Machine(W0))),
                      "UI.showToast"))

\* ShakeDetection.resetCharges called during a level.
ShakeDetection_resetCharges ==
    /\ Game.state = "playing"
    /\ CommitGame("resetCharges", <<>>, Shaken(W0, resetChargesBody(Machine(W0))))

\* Due timers of ShakeDetection and of Rudolf run their callbacks.
overheatTimer ==
    \E t \in timeouts :
        /\ t.fn = "overheat" /\ t.at <= now
        /\ CommitGame("overheatTimer", <<>>,
                      Shaken(W0, overheatTimeoutBody([Machine(W0) EXCEPT !.to = timeouts \ {t}])))

shakeCountTimer ==
    \E t \in timeouts :
        /\ t.fn = "shakeCount" /\ t.at <= now
        /\ CommitGame("shakeCountTimer", <<>>,
                      Shaken(W0, shakeCountTimeoutBody([Machine(W0) EXCEPT !.to = timeouts \ {t}])))

boostTimer ==
    \E t \in timeouts :
        /\ t.fn = "boost" /\ t.at <= now
        /\ CommitGame("boostTimer", <<>>,
                      [W0 EXCEPT !.timeouts = timeouts \ {t},
                                 !.Game.rudolf.isBoosting = FALSE,
                                 !.Game.rudolf.boostTimer = 0])

\* The clock is followed for BoostTime ms: three triggers fit into the part
\* of it that is left after the calibration.
BoostTime == 7200

BoostTick == Clock(BoostTime, {cooldown + 1})

InitBoost == InitOn(PlainPhone)

NextBoost ==
    \/ handlePlayClick
    \/ calibrationTimeout
    \/ startLevelTimeout
    \/ boostButton
    \/ devicemotion
    \/ collectCarrot
    \/ ShakeDetection_resetCharges
    \/ shakeCountTimer
    \/ boostTimer
    \/ pause
    \/ quit
    \/ BoostTick

SpecBoost == InitBoost /\ [][NextBoost]_vars

\* C34: the charges stay within 0..maxCharges over the motion and manual
\* triggers, addCharge, resetCharges and reset; addCharge at maxCharges
\* changes nothing of ShakeDetection and notifies nobody; and a level starts
\* with maxCharges charges.
C34_ChargesBounded ==
    [][ /\ ShakeDetection'.charges \in 0..maxCharges
        /\ op' = "collectCarrot" /\ ShakeDetection.charges = maxCharges =>
              ShakeDetection' = ShakeDetection /\ ~Has(out', "onChargeChange")
        /\ Has(out', "Game.startLevel") => ShakeDetection'.charges = maxCharges ]_vars

\* A carrot was collected with all three charges there.
C34_Witness ==
    /\ op = "collectCarrot"
    /\ ShakeDetection.charges = maxCharges
    /\ ~Has(out, "onChargeChange")
    /\ Game.score = carrotPoints

\* A level was started again after two charges had been used.
C34_Restart ==
    /\ Has(out, "Game.startLevel")
    /\ hist.starts = 2
    /\ ShakeDetection.charges = maxCharges

\* A trigger was accepted in this step: ShakeDetection notified onShake and
\* took a charge.
Accepted == Has(out', "onShake") /\ ShakeDetection'.charges = ShakeDetection.charges - 1

\* C35: every trigger ShakeDetection accepts while the session is playing
\* gives a boost: Rudolf was not boosting and is boosting afterwards,
\* boostsUsed is one more and the fog has one more hole, of the boost radius
\* at the nose.
C35_TriggerBoosts ==
    [][ Accepted /\ Game.state = "playing" =>
          /\ ~Game.rudolf.isBoosting /\ Game'.rudolf.isBoosting
          /\ Game'.boostsUsed = Game.boostsUsed + 1
          /\ Len(fogSystem'.visibilityHoles) = Len(fogSystem.visibilityHoles) + 1
          /\ LET hole == fogSystem'.visibilityHoles[Len(fogSystem'.visibilityHoles)]
             IN hole.x = Game.rudolf.x /\ hole.y = Game.rudolf.y
                /\ hole.radius = noseBoostRadius ]_vars

\* The boost button took a charge 2001 ms after a boost began, and no boost
\* came of it.
C35_ChargeLost ==
    /\ op = "boostButton"
    /\ Has(out, "onShake")
    /\ ~Has(out, "UI.showBoostEffect")
    /\ Game.state = "playing"
    /\ Game.boostsUsed = 1
    /\ ShakeDetection.charges = maxCharges - 2
    /\ Game.rudolf.isBoosting

\* ------------------------------------------------- Game: the overheated nose
\* The long run to an overheat and its recovery: the charges are refilled
\* when they are used up, and the game is paused while the nose is hot.
refill == ShakeDetection.charges = 0 /\ ShakeDetection_resetCharges

pauseHot == ShakeDetection.isOverheated /\ pause

HeatTick == Clock(MaxTime, {cooldown + 1})

NextHeat ==
    \/ handlePlayClick
    \/ spaceKey
    \/ refill
    \/ overheatTimer
    \/ shakeCountTimer
    \/ boostTimer
    \/ pauseHot
    \/ resume
    \/ quit
    \/ HeatTick

SpecHeat == InitScore /\ [][NextHeat]_vars

\* C36: once a level has been started, Rudolf is overheated exactly when
\* ShakeDetection is.
C36_SameHeat == hist.starts > 0 => (Game.rudolf.isOverheated <=> ShakeDetection.isOverheated)

\* The recovery timer ran while the game was paused, and both flags are down.
C36_Witness ==
    /\ op = "overheatTimer"
    /\ Game.state = "paused"
    /\ ~Game.rudolf.isOverheated
    /\ ~ShakeDetection.isOverheated
    /\ Has(out, "onCooldownEnd")

\* ------------------------------------------------- Game: the frame chain
\* C37: at most one animation frame of the game loop is pending, and it is
\* the one whose handle Game.animationFrameId holds.
C37_OneChain == Cardinality(rafs) <= 1 /\ rafs \subseteq {Game.animationFrameId}

\* The level was started again from the result screen, and one frame is pending.
C37_Witness ==
    /\ op = "onRetry"
    /\ hist.starts = 2
    /\ Game.state = "playing"
    /\ Cardinality(rafs) = 1

\* ------------------------------------------------- Game: the end of a level
\* How often the step ran handleLevelComplete, handleTimeOut and recordScore.
Completions == Count(out', "UI.showSuccess")
TimeOuts == Count(out', "UI.showFailure")
Records == Count(out', "Levels.recordScore")

\* The step started a level.
Starts == hist'.starts = hist.starts + 1

\* No level is being played in this state of the game.
Over(state) == state \notin {"playing", "paused"}

\* C38: a level ends in at most one outcome: handleLevelComplete and
\* handleTimeOut run only while the level is played and end the play, which
\* only a level start begins again; the one that runs adds the bonus and
\* records the score once; then the score stays until the next level start.
C38_OneOutcome ==
    [][ /\ Completions + TimeOuts <= 1
        /\ Records = Completions
        /\ Completions + TimeOuts = 1 =>
              /\ Game.state = "playing"
              /\ Game.state' = (IF Completions = 1 THEN "success" ELSE "gameover")
        /\ Completions = 1 =>
              \E points \in {0, ret'.points} :
                  Game.score' = Game.score + points
                                + calculateBonus(SecondsLeft(Game.timer), TRUE,
                                                 Game.boostsUsed = 0,
                                                 ~Game.sleigh.hasCollidedThisLevel,
                                                 ~Game.radarUsed)
        /\ Over(Game.state) /\ ~Over(Game.state') => Starts
        /\ Over(Game.state) /\ ~Starts =>
              /\ Game.score' = Game.score
              /\ Levels.highScores' = Levels.highScores ]_vars

\* The level was completed by a tap, and is played again.
C38_Witness ==
    /\ op = "onRetry"
    /\ hist.starts = 2
    /\ Game.state = "playing"
    /\ Game.score = 0
    /\ UI.success.score > 0
    /\ Levels.highScores # LevelsInit.highScores

\* The level ran out of time.
C38_TimedOut ==
    /\ op = "gameLoop"
    /\ Has(out, "UI.showFailure")
    /\ Game.state = "gameover"
    /\ ~TouchControls.enabled

\* ------------------------------------------------- Game: input outside play
\* The keyboard and mouse, and the phone with its sensors and touch screen.
InitInput == InitOn(Desktop) \/ InitOn(PlainPhone)

\* How long the clock is followed: the calibration, the start of the level
\* and a hold.
InputTime == 3500

\* One level is played, started with play-btn.
playOnce == hist.starts = 0 /\ playTouch

InputClock == now < StartTime + InputTime /\ GameClock

\* The first frames light the targets, which are then tapped.
lightUp == Game.timer = Game.currentLevel.time * 1000 /\ gameLoopTo

tapLit == Game.timer < Game.currentLevel.time * 1000 /\ Game.timer > LateTimer /\ handleTap

\* The input events that arrive while no level is being played: the boost
\* button, the space bar, a motion sample, and the release of a finger or of
\* the mouse button that went down during play.
NotPlaying == Game.state # "playing"

boostButtonOutside == NotPlaying /\ boostButton

spaceKeyOutside == NotPlaying /\ spaceKey

devicemotionOutside == NotPlaying /\ devicemotion

touchendOutside == NotPlaying /\ touchend

mouseupOutside == NotPlaying /\ mouseup

NextInput ==
    \/ playOnce
    \/ calibrationTimeout
    \/ startLevelTimeout
    \/ InputClock
    \/ lightUp
    \/ tapLit
    \/ gameLoopRun
    \/ gameLoopOut
    \/ touchstart
    \/ mousedown
    \/ holdTimeout
    \/ boostButtonOutside
    \/ spaceKeyOutside
    \/ devicemotionOutside
    \/ touchendOutside
    \/ mouseupOutside
    \/ pause
    \/ resume
    \/ quit

SpecInput == InitInput /\ [][NextInput]_vars

InputEvents ==
    {"touchstart", "touchend", "touchmove", "mousedown", "mouseup", "handleTap",
     "boostButton", "spaceKey", "devicemotion"}

\* C39: while Game.state is not playing, no input event delivers a target,
\* adds score, consumes a boost charge, adds a fog hole or marks the radar as
\* used.
C39_InputIgnored ==
    [][ NotPlaying /\ op' \in InputEvents =>
          /\ Game.state' = Game.state
          /\ Game.score' = Game.score
          /\ chimneySystem' = chimneySystem
          /\ ShakeDetection.charges' = ShakeDetection.charges
          /\ Game.boostsUsed' = Game.boostsUsed
          /\ fogSystem.visibilityHoles' = fogSystem.visibilityHoles
          /\ Game.radarUsed' = Game.radarUsed
          /\ ~Has(out', "onTap") /\ ~Has(out', "onDoubleTap") /\ ~Has(out', "onShake") ]_vars

\* The space bar was pressed while the game was paused with every charge left
\* and no cooldown running.
C39_Witness ==
    /\ op = "spaceKey"
    /\ Game.state = "paused"
    /\ ShakeDetection.isInitialized
    /\ ShakeDetection.charges = maxCharges
    /\ ShakeDetection.lastShake = 0
    /\ ~ShakeDetection.isOverheated

\* A finger that went down during play was lifted on the success screen.
C39_LiftedLate == op = "touchend" /\ Game.state = "success"

\* A motion sample arrived after the level ran out of time.
C39_ShakenLate == op = "devicemotion" /\ arg[1] = FALSE /\ arg[2] > 0 /\ Game.state = "gameover"

\* The boost button was pressed on the start screen after the level was quit.
C39_PressedLate == op = "boostButton" /\ Game.state = "menu" /\ hist.starts = 1

\* ------------------------------------------------- TiltControls: calibrating again
\* The step completes the second calibration, the first having completed.
Recalibrated ==
    /\ op' = "takeSample" /\ Has(out', "onComplete")
    /\ hist.tilt.calibrations = 2
    /\ TiltControls.isCalibrated

\* C40 as stated: a second calibration run to completion while the sensor
\* reports the same steady orientation as during the first leaves the stored
\* offset unchanged, and a report of that orientation still gives the
\* steering output (0, 0).
C40_Idempotent ==
    [][ \A raw \in RawOrientations :
          /\ (Recalibrated /\ Steady(hist'.tilt, raw[1], raw[2]))
             => TiltControls'.calibration = TiltControls.calibration
          /\ ( /\ op' = "handleOrientation" /\ arg' = raw
               /\ TiltControls.enabled /\ TiltControls.isCalibrated
               /\ hist.tilt.calibrations = 2 /\ ~hist.tilt.calibrating
               /\ Steady(hist'.tilt, raw[1], raw[2]) )
             => /\ TiltControls'.gamma = 0 /\ TiltControls'.beta = 0
                /\ TiltControls'.smoothedGamma = 0 /\ TiltControls'.smoothedBeta = 0 ]_vars

\* The second calibration at the steady orientation (10, 0) has replaced the
\* offset by (0, 0).
C40_OffsetErased ==
    /\ op = "takeSample" /\ Has(out, "onComplete")
    /\ hist.tilt.calibrations = 2
    /\ Steady(hist.tilt, 10, 0)
    /\ TiltControls.calibration = [gamma |-> 0, beta |-> 0]

\* The second calibration with no report since the first began has kept the
\* offset.
C40_OffsetKept ==
    /\ op = "takeSample" /\ Has(out, "onComplete")
    /\ hist.tilt.calibrations = 2
    /\ Steady(hist.tilt, 10, 0)
    /\ hist.tilt.events = 1
    /\ TiltControls.calibration = [gamma |-> 10 * AngleUnit, beta |-> 0]

====
